---- MODULE Spec2Model ----
(***************************************************************************)
(* A model of the ORC "optimal" service of morbra/x102: the LRU/TTL cache  *)
(* (makeLRU, OrcCache, generateCacheKey), the request path of              *)
(* services/orc/index.ts (validateOptimalRequest, getOrcData, optimal) and *)
(* the solver of services/orc/polar.ts (interpAtTws, computeReaching, the  *)
(* estimates from the angle series, computeOptimal).  The request path     *)
(* carries the solver in exact arithmetic, which decides whether it        *)
(* throws; the solver's own section computes in binary64 as the code does. *)
(*                                                                         *)
(* Strings are sequences of one-character strings, so that toLowerCase()   *)
(* and trim() are computed and not assumed.  An absent (undefined) or      *)
(* empty string field is the empty sequence: the code only ever tests such *)
(* fields for truthiness, which treats the two alike.                      *)
(*                                                                         *)
(* Time is Date.now() in abstract milliseconds; each cache operation reads *)
(* the clock once, and the clock may advance between two readings.         *)
(***************************************************************************)
EXTENDS Integers, Sequences, FiniteSets, TLC

(***************************************************************************)
(* Bounds of the model.  makeLRU(max, ttlMs) is generic in both of its     *)
(* parameters; the service instantiates it with (100, 24h).                *)
(***************************************************************************)
MaxSize == 2
TtlMs == 1
MaxTime == 2
MaxCount == 1

VARIABLES
  map,      \* makeLRU: the Map, as the sequence of its entries in insertion order
  hits,     \* OrcCache.hits
  misses,   \* OrcCache.misses
  now,      \* Date.now()
  last,     \* observation: the last operation performed and what it returned
  used,     \* history: stored keys by their last successful get()/set(), oldest first
  setAt,    \* history: per key, the time of its most recent set() while stored, else -1
  hist,     \* history: the run of set() calls on distinct keys since construction
  built,    \* history: per stored key, the fetch its entry came from (time, model)
  pc        \* per request slot: idle, or awaiting fetchOrcJson with (key, tws) in hand

cacheVars == <<map, hits, misses>>
ghostVars == <<used, setAt, hist, built>>
vars == <<map, hits, misses, now, last, used, setAt, hist, built, pc>>

----------------------------------------------------------------------------
(* Strings *)

NoStr == <<>>

LowerChar(c) ==
  CASE c = "A" -> "a"
    [] c = "B" -> "b"
    [] OTHER -> c

toLowerCase(s) == [i \in 1..Len(s) |-> LowerChar(s[i])]

IsSpace(c) == c = " "

RECURSIVE trimStart(_)
trimStart(s) ==
  IF s # <<>> /\ IsSpace(Head(s)) THEN trimStart(Tail(s)) ELSE s

RECURSIVE trimEnd(_)
trimEnd(s) ==
  IF s # <<>> /\ IsSpace(s[Len(s)]) THEN trimEnd(SubSeq(s, 1, Len(s) - 1)) ELSE s

trim(s) == trimEnd(trimStart(s))

----------------------------------------------------------------------------
(* A request: tws and the four identity fields.  tws is a JavaScript value: *)
(* [t |-> typeof, nan |-> is it NaN, v |-> its value when it is a number]. *)
(* Every comparison with NaN is false.                                     *)

TNum(v) == [t |-> "number", nan |-> FALSE, v |-> v]
TNaN == [t |-> "number", nan |-> TRUE, v |-> 0]
TStr == [t |-> "string", nan |-> FALSE, v |-> 0]

JsLt(x, c) == ~x.nan /\ x.v < c
JsLe(x, c) == ~x.nan /\ x.v <= c
JsGt(x, c) == ~x.nan /\ x.v > c

Truthy(s) == s # NoStr

\* A faulty variant: no case folding.
generateCacheKey_noFold(r) ==
  IF Truthy(r.refNo)
    THEN <<"r", "e", "f", ":">> \o r.refNo
  ELSE IF Truthy(r.countryId) /\ Truthy(r.sailNo)
    THEN <<"s", "a", "i", "l", ":">> \o r.countryId
           \o <<"|">> \o r.sailNo
  ELSE IF Truthy(r.yachtName)
    THEN <<"n", "a", "m", "e", ":">> \o trim(r.yachtName)
  ELSE NoStr

\* generateCacheKey
generateCacheKey(r) ==
  IF Truthy(r.refNo)
    THEN <<"r", "e", "f", ":">> \o toLowerCase(r.refNo)
  ELSE IF Truthy(r.countryId) /\ Truthy(r.sailNo)
    THEN <<"s", "a", "i", "l", ":">> \o toLowerCase(r.countryId)
           \o <<"|">> \o toLowerCase(r.sailNo)
  ELSE IF Truthy(r.yachtName)
    THEN <<"n", "a", "m", "e", ":">> \o toLowerCase(trim(r.yachtName))
  ELSE NoStr

\* validateOptimalRequest: "ok", or which of its errors it throws.
validateOptimalRequest(r) ==
  IF r.tws.t # "number" \/ JsLe(r.tws, 0) THEN "E_TWS_POSITIVE"
  ELSE IF JsLt(r.tws, 2) \/ JsGt(r.tws, 50) THEN "E_TWS_RANGE"
  ELSE IF ~Truthy(r.refNo) /\ ~Truthy(r.sailNo) /\ ~Truthy(r.yachtName)
    THEN "E_NO_IDENTIFIER"
  ELSE IF Truthy(r.yachtName) /\ ~Truthy(r.countryId)
          /\ ~Truthy(r.refNo) /\ ~Truthy(r.sailNo)
    THEN "E_COUNTRY_REQUIRED"
  ELSE "ok"

\* validateOrcRequest (called first thing by fetchOrcJson)
validateOrcRequest(r) ==
  IF ~Truthy(r.refNo) /\ ~Truthy(r.sailNo) /\ ~Truthy(r.yachtName)
    THEN "E_NO_IDENTIFIER"
  ELSE IF Truthy(r.yachtName) /\ ~Truthy(r.countryId)
          /\ ~Truthy(r.refNo) /\ ~Truthy(r.sailNo)
    THEN "E_COUNTRY_REQUIRED"
  ELSE "ok"

----------------------------------------------------------------------------
(* The JavaScript Map behind makeLRU: entries [k, value, timestamp] in      *)
(* insertion order.                                                        *)

MapHas(m, k) == \E i \in 1..Len(m) : m[i].k = k

MapKeys(m) == {m[i].k : i \in 1..Len(m)}

MapGet(m, k) == m[CHOOSE i \in 1..Len(m) : m[i].k = k]

MapDelete(m, k) == SelectSeq(m, LAMBDA e : e.k # k)

\* Map.prototype.set: an existing key keeps its place, a new key goes last.
MapSet(m, k, e) ==
  IF MapHas(m, k)
    THEN [i \in 1..Len(m) |-> IF m[i].k = k THEN e ELSE m[i]]
    ELSE Append(m, e)

Expired(e, t) == t - e.timestamp > TtlMs

NoValue == "undefined"

\* A faulty variant: a hit renews the time stamp.
LRU_get_refresh(m, k, t) ==
  IF ~MapHas(m, k)
    THEN [map |-> m, res |-> "miss", val |-> NoValue]
    ELSE LET entry == MapGet(m, k) IN
         IF Expired(entry, t)
           THEN [map |-> MapDelete(m, k), res |-> "miss", val |-> NoValue]
           ELSE [map |-> MapSet(MapDelete(m, k), k, [entry EXCEPT !.timestamp = t]),
                 res |-> "hit", val |-> entry.value]

\* A faulty variant: a hit leaves the key where it was.
LRU_get_noTouch(m, k, t) ==
  IF ~MapHas(m, k)
    THEN [map |-> m, res |-> "miss", val |-> NoValue]
    ELSE LET entry == MapGet(m, k) IN
         IF Expired(entry, t)
           THEN [map |-> MapDelete(m, k), res |-> "miss", val |-> NoValue]
           ELSE [map |-> m, res |-> "hit", val |-> entry.value]

\* makeLRU.get
LRU_get(m, k, t) ==
  IF ~MapHas(m, k)
    THEN [map |-> m, res |-> "miss", val |-> NoValue]
    ELSE LET entry == MapGet(m, k) IN
         IF Expired(entry, t)
           THEN [map |-> MapDelete(m, k), res |-> "miss", val |-> NoValue]
           ELSE [map |-> MapSet(MapDelete(m, k), k, entry),
                 res |-> "hit", val |-> entry.value]

\* A faulty variant: the overflow drops the newest key.
LRU_set_evictNewest(m, k, v, t) ==
  LET m1 == IF MapHas(m, k) THEN MapDelete(m, k) ELSE m
      m2 == MapSet(m1, k, [k |-> k, value |-> v, timestamp |-> t])
  IN  IF Len(m2) > MaxSize
        THEN [map |-> MapDelete(m2, m2[Len(m2)].k), evicted |-> <<m2[Len(m2)]>>]
        ELSE [map |-> m2, evicted |-> <<>>]

\* A faulty variant: the overflow is noticed one entry late.
LRU_set_offByOne(m, k, v, t) ==
  LET m1 == IF MapHas(m, k) THEN MapDelete(m, k) ELSE m
      m2 == MapSet(m1, k, [k |-> k, value |-> v, timestamp |-> t])
  IN  IF Len(m2) > MaxSize + 1
        THEN [map |-> MapDelete(m2, m2[1].k), evicted |-> <<m2[1]>>]
        ELSE [map |-> m2, evicted |-> <<>>]

\* makeLRU.set; evicted is <<the entry of firstKey>> when one was dropped.
LRU_set(m, k, v, t) ==
  LET m1 == IF MapHas(m, k) THEN MapDelete(m, k) ELSE m
      m2 == MapSet(m1, k, [k |-> k, value |-> v, timestamp |-> t])
  IN  IF Len(m2) > MaxSize
        THEN [map |-> MapDelete(m2, m2[1].k), evicted |-> <<m2[1]>>]
        ELSE [map |-> m2, evicted |-> <<>>]

\* makeLRU.has
LRU_has(m, k, t) ==
  IF ~MapHas(m, k)
    THEN [map |-> m, res |-> FALSE]
    ELSE IF Expired(MapGet(m, k), t)
           THEN [map |-> MapDelete(m, k), res |-> FALSE]
           ELSE [map |-> m, res |-> TRUE]

\* makeLRU.delete
LRU_delete(m, k) == [map |-> MapDelete(m, k), res |-> MapHas(m, k)]

\* makeLRU.clear
LRU_clear(m) == <<>>

\* makeLRU.size
LRU_size(m) == Len(m)

----------------------------------------------------------------------------
(* The polar model.  An optional value is a sequence of length 0 or 1.      *)
(* Speeds are in hundredths of a knot (the code rounds to 2 decimals),     *)
(* times in whole seconds per nautical mile, angles in whole degrees.      *)

STANDARD_WIND_SPEEDS == <<6, 8, 10, 12, 14, 16, 20>>

REACH_ANGLES == {52, 60, 75, 90, 110, 120, 135, 150}

None == <<>>
Some(x) == <<x>>

\* Number((3600 / s).toFixed(2)) in hundredths, 0 for s <= 0.
toKnots(secPerNm) ==
  [i \in 1..Len(secPerNm) |->
     IF secPerNm[i] <= 0 THEN 0
     ELSE (2 * 360000 + secPerNm[i]) \div (2 * secPerNm[i])]

\* parsePolarFromOrcJson: [ok, err, polar].  orcJson is
\* [rms |-> optional rms[0]], rms[0] is [Allowances |-> optional allowances].
parsePolarFromOrcJson(orcJson) ==
  IF orcJson.rms = None
    THEN [ok |-> FALSE, err |-> "E_NO_RMS", polar |-> None]
  ELSE IF orcJson.rms[1].Allowances = None
    THEN [ok |-> FALSE, err |-> "E_NO_ALLOWANCES", polar |-> None]
  ELSE
    LET allowances == orcJson.rms[1].Allowances[1]
        present == {a \in REACH_ANGLES :
                      allowances.R[a] # None /\ Len(allowances.R[a][1]) > 0}
    IN  [ok |-> TRUE, err |-> "ok",
         polar |-> Some(
           [wind |-> IF allowances.WindSpeeds # None
                       THEN allowances.WindSpeeds[1]
                       ELSE STANDARD_WIND_SPEEDS,
            beatAngles |-> allowances.BeatAngle,
            beatVmg |-> IF allowances.Beat # None
                          THEN Some(toKnots(allowances.Beat[1])) ELSE None,
            gybeAngles |-> allowances.GybeAngle,
            runVmg |-> IF allowances.Run # None
                         THEN Some(toKnots(allowances.Run[1])) ELSE None,
            angleSpeeds |-> [a \in present |-> toKnots(allowances.R[a][1])]])]

Undefined == [def |-> FALSE, num |-> 0, den |-> 1]
Num(n, d) == [def |-> TRUE, num |-> n, den |-> d]

\* interpAtTws for a number tws: undefined, or the fraction num / den.
interpAtTws(values, windSpeeds, tws) ==
  LET n == Len(windSpeeds) IN
  IF Len(values) # n THEN Undefined
  ELSE IF n = 0 THEN Undefined
  ELSE IF tws <= windSpeeds[1] THEN Num(values[1], 1)
  ELSE IF tws >= windSpeeds[n] THEN Num(values[n], 1)
  ELSE LET hits0 == {i \in 1..(n - 1) :
                       tws >= windSpeeds[i] /\ tws <= windSpeeds[i + 1]}
       IN  IF hits0 = {} THEN Undefined
           ELSE LET i == CHOOSE j \in hits0 : \A j2 \in hits0 : j <= j2
                    d == windSpeeds[i + 1] - windSpeeds[i]
                IN  Num(values[i] * d + (values[i + 1] - values[i]) * (tws - windSpeeds[i]), d)

\* interpAtTws for any tws that passed validation: NaN fails every comparison.
interpAtTwsJs(values, windSpeeds, tws) ==
  IF tws.nan THEN Undefined ELSE interpAtTws(values, windSpeeds, tws.v)

\* typeof bs === 'number' && Number.isFinite(bs) && bs > 0
FinitePositive(x) == x.def /\ x.den > 0 /\ x.num > 0

\* findOptimalUpwindFromAngles / findOptimalDownwindFromAngles return a
\* result exactly when some sampled angle of the range has a finite positive
\* speed (its VMG is then positive, the cosine being positive on the range).
foundFromAngles(polar, tws, lo, hi) ==
  \E a \in DOMAIN polar.angleSpeeds :
     /\ a >= lo /\ a <= hi
     /\ FinitePositive(interpAtTwsJs(polar.angleSpeeds[a], polar.wind, tws))

directDefined(optSeries, polar, tws) ==
  optSeries # None /\ interpAtTwsJs(optSeries[1], polar.wind, tws).def

\* computeOptimal: does it throw 'Mangler tilstraekkelige data ...'?
computeOptimal_throws(polar, tws) ==
  LET upDirect == directDefined(polar.beatAngles, polar, tws)
                    /\ directDefined(polar.beatVmg, polar, tws)
      dnDirect == directDefined(polar.gybeAngles, polar, tws)
                    /\ directDefined(polar.runVmg, polar, tws)
      upOk == upDirect \/ foundFromAngles(polar, tws, 35, 75)
      dnOk == dnDirect \/ foundFromAngles(polar, tws, 135, 179)
  IN  ~(upOk /\ dnOk)

----------------------------------------------------------------------------
(* History variables.  They record what the callers did, in the words of    *)
(* the cache's contract, and are never read by the operations themselves.  *)

RemoveKey(u, k) == SelectSeq(u, LAMBDA x : x # k)

\* Keys by last successful use: a get() hit or a set() moves k to the end;
\* has() does not count; a key no longer stored is forgotten.
UsedAfter(u, k, isUse, m2) ==
  LET u1 == IF isUse THEN Append(RemoveKey(u, k), k) ELSE u
  IN  SelectSeq(u1, LAMBDA x : x \in MapKeys(m2))

\* Time of the most recent set() of each stored key.
SetAtAfter(sa, k, isSet, t, m2) ==
  [x \in DOMAIN sa |->
     IF x \notin MapKeys(m2) THEN -1
     ELSE IF isSet /\ x = k THEN t
     ELSE sa[x]]

NoHist == [ok |-> FALSE, keys |-> <<>>, t0 |-> -1]
FreshHist == [ok |-> TRUE, keys |-> <<>>, t0 |-> -1]

\* The run of set() calls on pairwise distinct keys since construction (or
\* clear()), followed up to MaxSize + 1 calls; t0 is the time of the first.
HistAfterSet(h, k, t) ==
  IF h.ok /\ Len(h.keys) <= MaxSize /\ (\A i \in 1..Len(h.keys) : h.keys[i] # k)
    THEN [ok |-> TRUE, keys |-> Append(h.keys, k),
          t0 |-> IF h.keys = <<>> THEN t ELSE h.t0]
    ELSE NoHist

----------------------------------------------------------------------------
(* makeLRU on its own: any caller, any order of operations.                *)

Keys == {<<"a">>, <<"b">>, <<"c">>, <<"d">>}
\* The values a caller stores: one per key, told apart from every other key's.
ValuesFor(k) == {<<"v">> \o k}

\* Requests in flight; the model serves one at a time.
Procs == {"p1"}
Idle == [st |-> "idle", key |-> NoStr, tws |-> TNum(0)]
Fetching(key, tws) == [st |-> "fetching", key |-> key, tws |-> tws]

Obs(op, k, res, val, ev) ==
  [op |-> op, key |-> k, res |-> res, val |-> val, evicted |-> ev]

InitLru ==
  /\ map = <<>>
  /\ hits = 0
  /\ misses = 0
  /\ now = 0
  /\ last = Obs("new", NoStr, "none", NoValue, <<>>)
  /\ used = <<>>
  /\ setAt = [k \in Keys |-> -1]
  /\ hist = FreshHist
  /\ built = <<>>
  /\ pc = [p \in Procs |-> Idle]

Get(k) ==
  LET r == LRU_get(map, k, now) IN
  /\ map' = r.map
  /\ last' = Obs("get", k, r.res, r.val, <<>>)
  /\ used' = UsedAfter(used, k, r.res = "hit", r.map)
  /\ setAt' = SetAtAfter(setAt, k, FALSE, now, r.map)
  /\ hist' = NoHist
  /\ UNCHANGED <<pc, built, hits, misses, now>>

Set(k, v) ==
  LET r == LRU_set(map, k, v, now) IN
  /\ map' = r.map
  /\ last' = Obs("set", k, "none", v, r.evicted)
  /\ used' = UsedAfter(used, k, TRUE, r.map)
  /\ setAt' = SetAtAfter(setAt, k, TRUE, now, r.map)
  /\ hist' = HistAfterSet(hist, k, now)
  /\ UNCHANGED <<pc, built, hits, misses, now>>

Has(k) ==
  LET r == LRU_has(map, k, now) IN
  /\ map' = r.map
  /\ last' = Obs("has", NoStr, "none", NoValue, <<>>)
  /\ used' = UsedAfter(used, k, FALSE, r.map)
  /\ setAt' = SetAtAfter(setAt, k, FALSE, now, r.map)
  /\ UNCHANGED <<pc, built, hits, misses, now, hist>>

Delete(k) ==
  LET r == LRU_delete(map, k) IN
  /\ map' = r.map
  /\ last' = Obs("delete", NoStr, "none", NoValue, <<>>)
  /\ used' = UsedAfter(used, k, FALSE, r.map)
  /\ setAt' = SetAtAfter(setAt, k, FALSE, now, r.map)
  /\ hist' = NoHist
  /\ UNCHANGED <<pc, built, hits, misses, now>>

Clear ==
  /\ map' = LRU_clear(map)
  /\ last' = Obs("clear", NoStr, "none", NoValue, <<>>)
  /\ used' = <<>>
  /\ setAt' = [k \in DOMAIN setAt |-> -1]
  /\ hist' = FreshHist
  /\ UNCHANGED <<pc, built, hits, misses, now>>

\* Date.now() moves on.
Tick ==
  /\ now < MaxTime
  /\ now' = now + 1
  /\ last' = Obs("tick", NoStr, "none", NoValue, <<>>)
  /\ UNCHANGED <<pc, built, map, hits, misses, used, setAt, hist>>

NextLru ==
  \/ \E k \in Keys : Get(k)
  \/ \E k \in Keys : \E v \in ValuesFor(k) : Set(k, v)
  \/ \E k \in Keys : Has(k)
  \/ \E k \in Keys : Delete(k)
  \/ Clear
  \/ Tick

SpecLru == InitLru /\ [][NextLru]_vars

----------------------------------------------------------------------------
(* Claims about makeLRU, checked under SpecLru.                            *)

\* C1: after set() of MaxSize + 1 pairwise distinct keys, with no get() in
\* between and nothing expired, exactly one entry is gone and it is the
\* first-inserted one: get() of it misses, get() of every other key hits.
C1_FirstInsertedEvicted ==
  (hist.ok /\ Len(hist.keys) = MaxSize + 1 /\ now - hist.t0 <= TtlMs) =>
     /\ LRU_size(map) = MaxSize
     /\ MapKeys(map) = {hist.keys[i] : i \in 2..(MaxSize + 1)}
     /\ LRU_get(map, hist.keys[1], now).res = "miss"
     /\ \A i \in 2..(MaxSize + 1) : LRU_get(map, hist.keys[i], now).res = "hit"

C1_Witness ==
  /\ hist.ok /\ Len(hist.keys) = MaxSize + 1 /\ now - hist.t0 <= TtlMs
  /\ last.op = "set" /\ last.evicted # <<>> /\ last.evicted[1].k = hist.keys[1]

\* C2: whatever sequence of get, set, has, delete and clear is applied, the
\* store never holds more entries than its capacity.
C2_SizeAtMostCapacity == LRU_size(map) <= MaxSize

C2_Witness ==
  /\ LRU_size(map) = MaxSize
  /\ last.op = "set" /\ last.evicted # <<>>

\* C3: set(k, v) makes k the most recently used entry; a set() of a key that
\* is already stored evicts nothing; a set() of a new key into a full store
\* evicts exactly the stored key whose last get() hit or set() is the oldest
\* (has() is no use), and a set() into a store with room evicts nothing.
C3_SetStep ==
  last'.op = "set" =>
    LET k == last'.key
        ev == last'.evicted
    IN  /\ map' # <<>> /\ map'[Len(map')].k = k
        /\ [i \in 1..Len(map') |-> map'[i].k] = used'
        /\ MapHas(map, k) => (ev = <<>> /\ MapKeys(map') = MapKeys(map))
        /\ (~MapHas(map, k) /\ LRU_size(map) < MaxSize) =>
             (ev = <<>> /\ MapKeys(map') = MapKeys(map) \cup {k})
        /\ (~MapHas(map, k) /\ LRU_size(map) >= MaxSize) =>
             (/\ Len(ev) = 1 /\ ev[1].k = Head(used)
              /\ MapKeys(map') = (MapKeys(map) \cup {k}) \ {Head(used)})

C3_SetMakesMruEvictsLru == [][C3_SetStep]_vars

\* A set() has just evicted an entry that was set later than one it kept:
\* a get() hit had made the older entry the more recently used one.
C3_Witness ==
  /\ last.op = "set" /\ last.evicted # <<>>
  /\ LRU_size(map) = MaxSize
  /\ \E i \in 1..Len(map) : map[i].timestamp < last.evicted[1].timestamp

\* C4: get(k) returns the stored value exactly when k is stored and at most
\* TtlMs has passed since the most recent set(k); a hit leaves the entry's
\* time stamp alone; a get() of a stored key older than TtlMs returns absent
\* and removes the key.
C4_GetStep ==
  last'.op = "get" =>
    LET k == last'.key
        stored == MapHas(map, k)
        fresh == now - setAt[k] <= TtlMs
    IN  /\ (last'.res = "hit") <=> (stored /\ fresh)
        /\ last'.res = "hit" =>
             /\ last'.val = MapGet(map, k).value
             /\ MapHas(map', k)
             /\ MapGet(map', k).timestamp = setAt[k]
        /\ last'.res # "hit" => last'.val = NoValue
        /\ (stored /\ ~fresh) => ~MapHas(map', k)

C4_GetHonoursTtl == [][C4_GetStep]_vars

\* A get() has just hit an entry exactly TtlMs after its set(), after an
\* earlier moment at which it was younger.
C4_Witness ==
  /\ last.op = "get" /\ last.res = "hit"
  /\ now - setAt[last.key] = TtlMs

----------------------------------------------------------------------------
(* OrcCache: makeLRU plus the hit and miss counters.  A cache is the       *)
(* record [map, hits, misses].                                             *)

\* OrcCache.get
OrcCache_get(c, k, t) ==
  LET r == LRU_get(c.map, k, t) IN
  [map |-> r.map,
   hits |-> IF r.res = "hit" THEN c.hits + 1 ELSE c.hits,
   misses |-> IF r.res = "hit" THEN c.misses ELSE c.misses + 1,
   res |-> r.res, val |-> r.val]

\* OrcCache.set
OrcCache_set(c, k, v, t) ==
  LET r == LRU_set(c.map, k, v, t) IN
  [map |-> r.map, hits |-> c.hits, misses |-> c.misses, evicted |-> r.evicted]

\* OrcCache.has
OrcCache_has(c, k, t) ==
  LET r == LRU_has(c.map, k, t) IN
  [map |-> r.map, hits |-> c.hits, misses |-> c.misses, res |-> r.res]

\* OrcCache.delete
OrcCache_delete(c, k) ==
  LET r == LRU_delete(c.map, k) IN
  [map |-> r.map, hits |-> c.hits, misses |-> c.misses, res |-> r.res]

\* A faulty variant: misses survive the clear.
OrcCache_clear_keepMisses(c) ==
  [map |-> LRU_clear(c.map), hits |-> 0, misses |-> c.misses]

\* OrcCache.clear
OrcCache_clear(c) ==
  [map |-> LRU_clear(c.map), hits |-> 0, misses |-> 0]

\* OrcCache.getStats; hitRate is the fraction <<numerator, denominator>>.
OrcCache_getStats(c) ==
  LET total == c.hits + c.misses IN
  [size |-> LRU_size(c.map),
   totalHits |-> c.hits,
   totalMisses |-> c.misses,
   hitRate |-> IF total > 0 THEN <<c.hits, total>> ELSE <<0, 1>>]

Cache == [map |-> map, hits |-> hits, misses |-> misses]

----------------------------------------------------------------------------
(* OrcCache on its own: any caller, any order of operations.  The counters *)
(* are followed up to MaxCount.                                            *)

CacheKeys == {<<"a">>, <<"b">>, <<"c">>}

CacheGet(k) ==
  LET r == OrcCache_get(Cache, k, now) IN
  /\ r.hits <= MaxCount /\ r.misses <= MaxCount
  /\ map' = r.map /\ hits' = r.hits /\ misses' = r.misses
  /\ last' = Obs("get", k, r.res, r.val, <<>>)
  /\ UNCHANGED <<pc, built, now, used, setAt, hist>>

CacheSet(k, v) ==
  LET r == OrcCache_set(Cache, k, v, now) IN
  /\ map' = r.map /\ hits' = r.hits /\ misses' = r.misses
  /\ last' = Obs("set", k, "none", v, r.evicted)
  /\ UNCHANGED <<pc, built, now, used, setAt, hist>>

CacheHas(k) ==
  LET r == OrcCache_has(Cache, k, now) IN
  /\ map' = r.map /\ hits' = r.hits /\ misses' = r.misses
  /\ last' = Obs("has", NoStr, "none", NoValue, <<>>)
  /\ UNCHANGED <<pc, built, now, used, setAt, hist>>

CacheDelete(k) ==
  LET r == OrcCache_delete(Cache, k) IN
  /\ map' = r.map /\ hits' = r.hits /\ misses' = r.misses
  /\ last' = Obs("delete", NoStr, "none", NoValue, <<>>)
  /\ UNCHANGED <<pc, built, now, used, setAt, hist>>

\* The observation keeps the statistics as they were just before clear().
CacheClear ==
  LET r == OrcCache_clear(Cache) IN
  /\ map' = r.map /\ hits' = r.hits /\ misses' = r.misses
  /\ last' = Obs("clear", NoStr, "none", OrcCache_getStats(Cache), <<>>)
  /\ UNCHANGED <<pc, built, now, used, setAt, hist>>

NextCache ==
  \/ \E k \in CacheKeys : CacheGet(k)
  \/ \E k \in CacheKeys : \E v \in ValuesFor(k) : CacheSet(k, v)
  \/ \E k \in CacheKeys : CacheHas(k)
  \/ \E k \in CacheKeys : CacheDelete(k)
  \/ CacheClear
  \/ Tick

SpecCache == InitLru /\ [][NextCache]_vars

\* C10: right after OrcCache.clear(), whatever the state it was called in,
\* the store is empty (size 0, every get() would miss) and the hit counter
\* and the miss counter are both 0.
C10_ClearResetsAll ==
  last.op = "clear" =>
    LET stats == OrcCache_getStats(Cache) IN
    /\ stats.size = 0
    /\ stats.totalHits = 0
    /\ stats.totalMisses = 0
    /\ \A k \in CacheKeys : OrcCache_get(Cache, k, now).res = "miss"

\* clear() has just been called on a full store with both counters non-zero.
C10_Witness ==
  /\ last.op = "clear"
  /\ last.val.size = MaxSize
  /\ last.val.totalHits > 0
  /\ last.val.totalMisses > 0

----------------------------------------------------------------------------
(* generateCacheKey as a function: every request over FieldVals is keyed.  *)

FieldVals == {NoStr, <<"a">>, <<"A">>, <<"a", "B">>, <<" ", "A", " ">>}

KeyRequests ==
  [tws : {TNum(12)}, refNo : FieldVals, sailNo : FieldVals,
   yachtName : FieldVals, countryId : FieldVals]

KeyOf(r) ==
  /\ last' = Obs("generateCacheKey", generateCacheKey(r), "none", r, <<>>)
  /\ UNCHANGED <<pc, built, map, hits, misses, now, used, setAt, hist>>

NextKey == \E r \in KeyRequests : KeyOf(r)

SpecKey == InitLru /\ [][NextKey]_vars

\* The contract's words, stated without the code's own string functions.
CasePairs == {{"a", "A"}, {"b", "B"}}

SameIgnoringCase(s, t) ==
  /\ Len(s) = Len(t)
  /\ \A i \in 1..Len(s) : s[i] = t[i] \/ {s[i], t[i]} \in CasePairs

\* s without its leading and trailing blanks.
Core(s) ==
  LET idx == {i \in 1..Len(s) : s[i] # " "} IN
  IF idx = {} THEN <<>>
  ELSE SubSeq(s, CHOOSE i \in idx : \A j \in idx : i <= j,
                 CHOOSE i \in idx : \A j \in idx : i >= j)

\* Which rule decides the key: 1 refNo, 2 countryId with sailNo, 3 yachtName.
Level(r) ==
  IF r.refNo # NoStr THEN 1
  ELSE IF r.countryId # NoStr /\ r.sailNo # NoStr THEN 2
  ELSE IF r.yachtName # NoStr THEN 3
  ELSE 0

SameDeciding(r, r2) ==
  /\ Level(r) = Level(r2)
  /\ Level(r) = 1 => SameIgnoringCase(r.refNo, r2.refNo)
  /\ Level(r) = 2 => /\ SameIgnoringCase(r.countryId, r2.countryId)
                     /\ SameIgnoringCase(r.sailNo, r2.sailNo)
  /\ Level(r) = 3 => SameIgnoringCase(Core(r.yachtName), Core(r2.yachtName))

\* C7: the key is decided by the first rule that applies (refNo, else
\* countryId with sailNo, else yachtName) and by nothing but that rule's
\* fields, lower-cased (the name trimmed too): requests that agree on them up
\* to letter case get the same key, and keys of different rules differ.
C7_KeyPriority ==
  last.op = "generateCacheKey" =>
    LET r == last.val
        key == last.key
    IN  /\ (key = NoStr) <=> (Level(r) = 0)
        /\ \A r2 \in KeyRequests :
             /\ SameDeciding(r, r2) => generateCacheKey(r2) = key
             /\ (Level(r) # 0 /\ Level(r2) # 0 /\ Level(r) # Level(r2))
                  => generateCacheKey(r2) # key

\* A key decided by the sail rule, with an upper-case country code and a
\* yacht name that plays no part.
C7_Witness ==
  /\ last.op = "generateCacheKey"
  /\ Level(last.val) = 2
  /\ last.val.countryId = <<"A">>
  /\ last.val.sailNo = <<"a", "B">>
  /\ last.val.yachtName # NoStr
  /\ last.key = <<"s", "a", "i", "l", ":", "a", "|", "a", "b">>

----------------------------------------------------------------------------
(* The request path of services/orc/index.ts.  optimal() runs in two       *)
(* synchronous stretches: from the call to the await of fetchOrcJson, and  *)
(* from the fetch's settlement to the end.  Each stretch reads the clock   *)
(* twice (has() then get(); new Date() then set()), at t1 <= t2.           *)
(* fetchedAt is the clock value (the code stores its ISO rendering).       *)

ValidationErrors ==
  {"E_TWS_POSITIVE", "E_TWS_RANGE", "E_NO_IDENTIFIER", "E_COUNTRY_REQUIRED"}

CacheOf(r) == [map |-> r.map, hits |-> r.hits, misses |-> r.misses]

\* computeOptimal, as far as the request path sees it: a result or the throw.
Solve(polar, tws) ==
  IF computeOptimal_throws(polar, tws) THEN "E_INSUFFICIENT_DATA" ELSE "ok"

\* A faulty variant: the cache is never consulted.
getOrcData_start_noCache(c, r, t1, t2) ==
  [cache |-> c, done |-> FALSE, data |-> NoValue]

\* getOrcData up to its await: the cache check.
getOrcData_start(c, r, t1, t2) ==
  LET cacheKey == generateCacheKey(r)
      h == IF Truthy(cacheKey) THEN OrcCache_has(c, cacheKey, t1)
           ELSE [map |-> c.map, hits |-> c.hits, misses |-> c.misses, res |-> FALSE]
      g == IF h.res THEN OrcCache_get(CacheOf(h), cacheKey, t2)
           ELSE [map |-> h.map, hits |-> h.hits, misses |-> h.misses,
                 res |-> "miss", val |-> NoValue]
  IN  IF g.res = "hit"
        THEN [cache |-> CacheOf(g), done |-> TRUE,
              data |-> [json |-> g.val.json, polar |-> g.val.polar,
                        fetchedAt |-> g.val.fetchedAt,
                        endpoint |-> "cache", cached |-> TRUE]]
        ELSE [cache |-> CacheOf(g), done |-> FALSE, data |-> NoValue]

\* optimal up to its first await: [cache, out, data, fetch].
optimal_start(c, r, t1, t2) ==
  LET v == validateOptimalRequest(r) IN
  IF v # "ok"
    THEN [cache |-> c, out |-> v, data |-> NoValue, fetch |-> FALSE]
  ELSE LET g == getOrcData_start(c, r, t1, t2) IN
       IF g.done
         THEN [cache |-> g.cache, out |-> Solve(g.data.polar, r.tws),
               data |-> g.data, fetch |-> FALSE]
       ELSE IF validateOrcRequest(r) # "ok"
         THEN [cache |-> g.cache, out |-> validateOrcRequest(r),
               data |-> NoValue, fetch |-> FALSE]
       ELSE [cache |-> g.cache, out |-> "await fetchOrcJson",
             data |-> NoValue, fetch |-> TRUE]

\* A faulty variant: the entry is stored only once the solver succeeded.
optimal_resume_storeIfSolved(c, cacheKey, tws, fetched, t1, t2) ==
  IF ~fetched.ok
    THEN [cache |-> c, out |-> "E_ORC_API", data |-> NoValue,
          stored |-> FALSE, evicted |-> <<>>]
  ELSE LET parsed == parsePolarFromOrcJson(fetched.json) IN
       IF ~parsed.ok
         THEN [cache |-> c, out |-> parsed.err, data |-> NoValue,
               stored |-> FALSE, evicted |-> <<>>]
       ELSE LET entry == [json |-> fetched.json, polar |-> parsed.polar[1],
                          fetchedAt |-> t1]
                doSet == Truthy(cacheKey) /\ Solve(entry.polar, tws) = "ok"
                st == IF doSet
                        THEN OrcCache_set(c, cacheKey, entry, t2)
                        ELSE [map |-> c.map, hits |-> c.hits,
                              misses |-> c.misses, evicted |-> <<>>]
            IN  [cache |-> CacheOf(st), out |-> Solve(entry.polar, tws),
                 data |-> [json |-> entry.json, polar |-> entry.polar,
                           fetchedAt |-> entry.fetchedAt,
                           endpoint |-> "upstream", cached |-> FALSE],
                 stored |-> doSet, evicted |-> st.evicted]

\* A faulty variant: the entry is stored under the empty key too.
optimal_resume_storeAlways(c, cacheKey, tws, fetched, t1, t2) ==
  IF ~fetched.ok
    THEN [cache |-> c, out |-> "E_ORC_API", data |-> NoValue,
          stored |-> FALSE, evicted |-> <<>>]
  ELSE LET parsed == parsePolarFromOrcJson(fetched.json) IN
       IF ~parsed.ok
         THEN [cache |-> c, out |-> parsed.err, data |-> NoValue,
               stored |-> FALSE, evicted |-> <<>>]
       ELSE LET entry == [json |-> fetched.json, polar |-> parsed.polar[1],
                          fetchedAt |-> t1]
                doSet == TRUE
                st == IF doSet
                        THEN OrcCache_set(c, cacheKey, entry, t2)
                        ELSE [map |-> c.map, hits |-> c.hits,
                              misses |-> c.misses, evicted |-> <<>>]
            IN  [cache |-> CacheOf(st), out |-> Solve(entry.polar, tws),
                 data |-> [json |-> entry.json, polar |-> entry.polar,
                           fetchedAt |-> entry.fetchedAt,
                           endpoint |-> "upstream", cached |-> FALSE],
                 stored |-> doSet, evicted |-> st.evicted]

\* optimal from the settlement of fetchOrcJson on: parse, store, solve.
\* fetched is [ok |-> FALSE, ...] (fetchOrcJson threw) or [ok |-> TRUE, json].
optimal_resume(c, cacheKey, tws, fetched, t1, t2) ==
  IF ~fetched.ok
    THEN [cache |-> c, out |-> "E_ORC_API", data |-> NoValue,
          stored |-> FALSE, evicted |-> <<>>]
  ELSE LET parsed == parsePolarFromOrcJson(fetched.json) IN
       IF ~parsed.ok
         THEN [cache |-> c, out |-> parsed.err, data |-> NoValue,
               stored |-> FALSE, evicted |-> <<>>]
       ELSE LET entry == [json |-> fetched.json, polar |-> parsed.polar[1],
                          fetchedAt |-> t1]
                doSet == Truthy(cacheKey)
                st == IF doSet
                        THEN OrcCache_set(c, cacheKey, entry, t2)
                        ELSE [map |-> c.map, hits |-> c.hits,
                              misses |-> c.misses, evicted |-> <<>>]
            IN  [cache |-> CacheOf(st), out |-> Solve(entry.polar, tws),
                 data |-> [json |-> entry.json, polar |-> entry.polar,
                           fetchedAt |-> entry.fetchedAt,
                           endpoint |-> "upstream", cached |-> FALSE],
                 stored |-> doSet, evicted |-> st.evicted]

----------------------------------------------------------------------------
(* Sample inputs of the service.                                           *)

TwsVals == {TStr, TNum(0), TNum(1), TNum(2), TNum(50), TNum(51), TNaN}

\* Requests identified by sail number and yacht name, with or without
\* countryId (refNo and the precedence of the identifiers are the subject of
\* SpecKey).
Requests ==
  [tws : TwsVals, refNo : {NoStr}, sailNo : {NoStr, <<"b">>},
   yachtName : {NoStr, <<" ", "a">>}, countryId : {NoStr, <<"A">>}]

SvcKeys == {generateCacheKey(r) : r \in Requests} \ {NoStr}

NoReach == [a \in REACH_ANGLES |-> None]

\* Direct beat and gybe series on a two-step axis: parses and solves.
PFull ==
  [rms |-> Some([Allowances |-> Some(
     [WindSpeeds |-> Some(<<6, 10>>),
      BeatAngle |-> Some(<<42, 40>>), Beat |-> Some(<<900, 600>>),
      GybeAngle |-> Some(<<150, 160>>), Run |-> Some(<<800, 500>>),
      R |-> NoReach])])]

\* Two-step reaching series and no axis: parses, and every series misses the
\* length of the standard axis, so that computeOptimal throws.
PThin ==
  [rms |-> Some([Allowances |-> Some(
     [WindSpeeds |-> None, BeatAngle |-> None, Beat |-> None,
      GybeAngle |-> None, Run |-> None,
      R |-> [a \in REACH_ANGLES |->
               IF a \in {52, 150} THEN Some(<<700, 600>>) ELSE None]])])]

\* rms[0] without Allowances, and no rms array: parsePolarFromOrcJson throws.
PNoAllowances == [rms |-> Some([Allowances |-> None])]
PNoRms == [rms |-> None]

FetchOutcomes ==
  {[ok |-> FALSE, json |-> PNoRms]}
    \cup {[ok |-> TRUE, json |-> j] : j \in {PFull, PThin, PNoAllowances, PNoRms}}

----------------------------------------------------------------------------
(* The service: requests, the cache singleton, the clock.                  *)

\* The fetch behind each stored entry.
BuiltAfter(b, k, isSet, e, m2) ==
  [x \in DOMAIN b |->
     IF x \notin MapKeys(m2) THEN <<>>
     ELSE IF isSet /\ x = k THEN <<e>>
     ELSE b[x]]

InitSvc ==
  /\ map = <<>>
  /\ hits = 0
  /\ misses = 0
  /\ now = 0
  /\ last = Obs("new", NoStr, "none", NoValue, <<>>)
  /\ used = <<>>
  /\ setAt = [k \in SvcKeys |-> -1]
  /\ hist = NoHist
  /\ built = [k \in SvcKeys |-> <<>>]
  /\ pc = [p \in Procs |-> Idle]

\* The clock readings of one synchronous stretch: now, then now or later.
Later == {t \in {now, now + 1} : t <= MaxTime}

\* Is the second reading taken?  By get(), which follows a has() that found
\* the key; by set(), which follows a parse that succeeded.
ReachesGet(r) ==
  /\ validateOptimalRequest(r) = "ok"
  /\ Truthy(generateCacheKey(r))
  /\ LRU_has(map, generateCacheKey(r), now).res

ReachesSet(key, fetched) ==
  fetched.ok /\ parsePolarFromOrcJson(fetched.json).ok /\ Truthy(key)

\* optimal(r) is called and runs to its first await or to its end.
Start(p, r, t2) ==
  /\ pc[p].st = "idle"
  /\ t2 \in Later
  /\ t2 # now => ReachesGet(r)
  /\ \E o \in {optimal_start(Cache, r, now, t2)} :
       /\ o.cache.hits <= MaxCount /\ o.cache.misses <= MaxCount
       /\ map' = o.cache.map /\ hits' = o.cache.hits /\ misses' = o.cache.misses
       /\ pc' = IF o.fetch
                  THEN [pc EXCEPT ![p] = Fetching(generateCacheKey(r), r.tws)]
                  ELSE pc
       /\ last' = Obs("optimal",
                      IF o.out \in ValidationErrors THEN NoStr
                      ELSE generateCacheKey(r),
                      o.out, o.data, <<>>)
       /\ setAt' = SetAtAfter(setAt, NoStr, FALSE, t2, o.cache.map)
       /\ built' = BuiltAfter(built, NoStr, FALSE, NoValue, o.cache.map)
  /\ now' = t2
  /\ UNCHANGED <<used, hist>>

\* fetchOrcJson settles and optimal runs to its end.
FetchDone(p, fetched, t2) ==
  /\ pc[p].st = "fetching"
  /\ t2 \in Later
  /\ t2 # now => ReachesSet(pc[p].key, fetched)
  /\ \E o \in {optimal_resume(Cache, pc[p].key, pc[p].tws, fetched, now, t2)} :
       /\ map' = o.cache.map /\ hits' = o.cache.hits /\ misses' = o.cache.misses
       /\ last' = Obs("fetched", pc[p].key, o.out, o.data, o.evicted)
       /\ setAt' = SetAtAfter(setAt, pc[p].key, o.stored, t2, o.cache.map)
       /\ built' = BuiltAfter(built, pc[p].key, o.stored,
                              [fetchedAt |-> now, json |-> fetched.json],
                              o.cache.map)
  /\ pc' = [pc EXCEPT ![p] = Idle]
  /\ now' = t2
  /\ UNCHANGED <<used, hist>>

\* clearCache (POST /api/orc/cache/clear)
ClearCache ==
  LET r == OrcCache_clear(Cache) IN
  /\ map' = r.map /\ hits' = r.hits /\ misses' = r.misses
  /\ last' = Obs("clearCache", NoStr, "none", OrcCache_getStats(Cache), <<>>)
  /\ setAt' = [k \in DOMAIN setAt |-> -1]
  /\ built' = [k \in DOMAIN built |-> <<>>]
  /\ UNCHANGED <<now, used, hist, pc>>

Next ==
  \/ \E p \in Procs, r \in Requests, t2 \in 0..MaxTime : Start(p, r, t2)
  \/ \E p \in Procs, f \in FetchOutcomes, t2 \in 0..MaxTime : FetchDone(p, f, t2)
  \/ ClearCache
  \/ Tick

Spec == InitSvc /\ [][Next]_vars

----------------------------------------------------------------------------
(* Claims about the request path, checked under Spec.  Each is stated of   *)
(* what Start and FetchDone do from the current state, for every request,  *)
(* every fetch outcome and every pair of clock readings.                   *)

Accepted(r) == validateOptimalRequest(r) = "ok"

\* The entries of m that a reading of the clock at t finds alive.
LiveAt(m, t) == SelectSeq(m, LAMBDA e : ~Expired(e, t))

\* C5: a request with a non-empty key whose entry is stored and not expired
\* (when get() reads the clock) issues no upstream fetch and builds no model:
\* the answer is solved from the model of the fetch that stored the entry, and
\* the data reports cached = true with that fetch's fetchedAt; the stored
\* value stays what it was.
C5_CachedAnswerNoFetch ==
  \A r \in Requests, t2 \in Later :
    \A key \in {generateCacheKey(r)} :
      (/\ Accepted(r) /\ key # NoStr
       /\ MapHas(map, key) /\ ~Expired(MapGet(map, key), t2))
      => \A o \in {optimal_start(Cache, r, now, t2)} :
           /\ ~o.fetch
           /\ o.data.cached = TRUE /\ o.data.endpoint = "cache"
           /\ built[key] # <<>>
           /\ o.data.fetchedAt = built[key][1].fetchedAt
           /\ o.data.json = built[key][1].json
           /\ o.data.polar = parsePolarFromOrcJson(built[key][1].json).polar[1]
           /\ o.out = Solve(o.data.polar, r.tws)
           /\ MapHas(o.cache.map, key)
           /\ MapGet(o.cache.map, key).value = MapGet(map, key).value
           /\ MapGet(o.cache.map, key).timestamp = MapGet(map, key).timestamp
           /\ o.cache.hits = hits + 1 /\ o.cache.misses = misses

\* A hit served strictly later than the fetch that stored the entry.
C5_Witness ==
  /\ last.op = "optimal" /\ last.res = "ok"
  /\ last.val.cached = TRUE
  /\ last.val.fetchedAt < now
  /\ built[last.key] # <<>> /\ built[last.key][1].fetchedAt = last.val.fetchedAt
  /\ \A p \in Procs : pc[p].st = "idle"

\* C6: with a non-empty key, the settlement of the fetch writes the cache
\* exactly when the fetch and parsePolarFromOrcJson both succeeded: the entry
\* [json, polar, fetchedAt] is then stored whatever the solver does next, and
\* otherwise the Map is left as it was; the miss that led to the fetch removed
\* nothing that was alive.
C6_StoredIffFetchedAndParsed ==
  /\ \A p \in Procs, f \in FetchOutcomes, t2 \in Later :
       (pc[p].st = "fetching" /\ pc[p].key # NoStr)
       => \A parsed \in {parsePolarFromOrcJson(f.json)} :
          \A o \in {optimal_resume(Cache, pc[p].key, pc[p].tws, f, now, t2)} :
            IF f.ok /\ parsed.ok
              THEN /\ o.stored
                   /\ MapHas(o.cache.map, pc[p].key)
                   /\ MapGet(o.cache.map, pc[p].key).value =
                        [json |-> f.json, polar |-> parsed.polar[1],
                         fetchedAt |-> now]
                   /\ MapGet(o.cache.map, pc[p].key).timestamp = t2
                   /\ o.cache.map # map
                   /\ o.out = Solve(parsed.polar[1], pc[p].tws)
              ELSE /\ ~o.stored
                   /\ o.cache.map = map
                   /\ o.out \in {"E_ORC_API", "E_NO_RMS", "E_NO_ALLOWANCES"}
  /\ \A r \in Requests, t2 \in Later :
       (Accepted(r) /\ generateCacheKey(r) # NoStr)
       => \A o \in {optimal_start(Cache, r, now, t2)} :
            o.fetch => LiveAt(o.cache.map, t2) = LiveAt(map, t2)

\* The solver threw on a freshly fetched model, and the model is cached.
C6_Witness ==
  /\ last.op = "fetched" /\ last.key # NoStr
  /\ last.res = "E_INSUFFICIENT_DATA"
  /\ MapHas(map, last.key)
  /\ MapGet(map, last.key).value.polar = last.val.polar

\* C8: an accepted request with no derivable key (generateCacheKey returns the
\* empty string) always goes upstream, and neither its start nor the
\* settlement of its fetch changes the Map or the hit and miss counters.
C8_KeylessBypassesCache ==
  /\ \A r \in Requests, t2 \in Later :
       (Accepted(r) /\ generateCacheKey(r) = NoStr)
       => \A o \in {optimal_start(Cache, r, now, t2)} :
            o.fetch /\ o.out = "await fetchOrcJson" /\ o.cache = Cache
  /\ \A p \in Procs, f \in FetchOutcomes, t2 \in Later :
       (pc[p].st = "fetching" /\ pc[p].key = NoStr)
       => \A o \in {optimal_resume(Cache, pc[p].key, pc[p].tws, f, now, t2)} :
            ~o.stored /\ o.cache = Cache /\ o.evicted = <<>>

\* A keyless request was answered from upstream while the cache held entries
\* and counted hits.
C8_Witness ==
  /\ last.op = "fetched" /\ last.key = NoStr /\ last.res = "ok"
  /\ map # <<>> /\ hits > 0

\* tws in [2, 50]
InRange(tws) == tws.t = "number" /\ ~tws.nan /\ tws.v >= 2 /\ tws.v <= 50

OutOfContract(r) ==
  \/ ~InRange(r.tws)
  \/ ~Truthy(r.refNo) /\ ~Truthy(r.sailNo) /\ ~Truthy(r.yachtName)
  \/ Truthy(r.yachtName) /\ ~Truthy(r.refNo) /\ ~Truthy(r.sailNo)
       /\ ~Truthy(r.countryId)

Rejected(r) ==
  \A t2 \in Later :
    \A o \in {optimal_start(Cache, r, now, t2)} :
      o.out \in ValidationErrors /\ ~o.fetch /\ o.cache = Cache

\* C9: optimal rejects every request whose tws is outside [2, 50], or that
\* names none of refNo, sailNo, yachtName, or that names yachtName alone
\* without countryId; the rejection leaves the Map and the counters as they
\* were and issues no fetch.
C9_RejectsOutOfContract ==
  \A r \in Requests : OutOfContract(r) => Rejected(r)

\* The same for every request but those whose tws is NaN.
C9_RejectsOutOfContractButNaN ==
  \A r \in Requests :
    (OutOfContract(r) /\ ~(r.tws.t = "number" /\ r.tws.nan)) => Rejected(r)

\* A request with tws = NaN went upstream and its answer was cached.
C9_NaNAccepted ==
  /\ last.op = "fetched" /\ last.key # NoStr /\ MapHas(map, last.key)
  /\ last.res = "E_INSUFFICIENT_DATA"
  /\ last.val.json = PFull

----------------------------------------------------------------------------
(* The numbers of polar.ts: IEEE 754 binary64, round to nearest, ties to   *)
(* even.  A finite number is [neg, m, e], worth (-1)^neg * m * 2^e, with   *)
(* m an odd natural number (or zero): equal numbers are equal records.  A  *)
(* natural number is written in base 2^15, lowest digit first, zero being  *)
(* <<>>.  The exponent range is not modelled (no overflow, no subnormal    *)
(* numbers), and -0 is 0.                                                  *)

Precision == 53

Base == 2^15

RECURSIVE NatDigits(_)
NatDigits(n) == IF n = 0 THEN <<>> ELSE <<n % Base>> \o NatDigits(n \div Base)

\* Drop the zero digits at the high end.
RECURSIVE BTrim(_)
BTrim(x) ==
  IF x = <<>> THEN <<>>
  ELSE IF x[Len(x)] # 0 THEN x
  ELSE BTrim(SubSeq(x, 1, Len(x) - 1))

RECURSIVE BAddFrom(_, _, _, _)
BAddFrom(x, y, i, c) ==
  IF i > Len(x) /\ i > Len(y) THEN (IF c = 1 THEN <<1>> ELSE <<>>)
  ELSE LET s == (IF i <= Len(x) THEN x[i] ELSE 0)
                  + (IF i <= Len(y) THEN y[i] ELSE 0) + c
       IN  <<s % Base>> \o BAddFrom(x, y, i + 1, s \div Base)

BAdd(x, y) == BAddFrom(x, y, 1, 0)

\* x - y for x >= y
RECURSIVE BSubFrom(_, _, _, _)
BSubFrom(x, y, i, b) ==
  IF i > Len(x) THEN <<>>
  ELSE LET d == x[i] - (IF i <= Len(y) THEN y[i] ELSE 0) - b
       IN  <<d % Base>> \o BSubFrom(x, y, i + 1, IF d < 0 THEN 1 ELSE 0)

BSub(x, y) == BTrim(BSubFrom(x, y, 1, 0))

\* -1, 0, 1 as x <, =, > y
BCmp(x, y) ==
  IF Len(x) # Len(y) THEN (IF Len(x) < Len(y) THEN -1 ELSE 1)
  ELSE IF x = y THEN 0
  ELSE LET i == CHOOSE j \in 1..Len(x) :
                  x[j] # y[j] /\ \A k \in (j + 1)..Len(x) : x[k] = y[k]
       IN  IF x[i] < y[i] THEN -1 ELSE 1

\* x * c for a digit c
RECURSIVE BMulDigitFrom(_, _, _, _)
BMulDigitFrom(x, c, i, carry) ==
  IF i > Len(x) THEN (IF carry = 0 THEN <<>> ELSE <<carry>>)
  ELSE <<(x[i] * c + carry) % Base>>
         \o BMulDigitFrom(x, c, i + 1, (x[i] * c + carry) \div Base)

BMulDigit(x, c) == BTrim(BMulDigitFrom(x, c, 1, 0))

\* x * Base^q
BShlDigits(x, q) ==
  IF x = <<>> THEN <<>>
  ELSE [i \in 1..(Len(x) + q) |-> IF i <= q THEN 0 ELSE x[i - q]]

\* x * 2^k
BShl(x, k) == BShlDigits(BMulDigit(x, 2^(k % 15)), k \div 15)

RECURSIVE BMulFrom(_, _, _)
BMulFrom(x, y, i) ==
  IF i > Len(y) THEN <<>>
  ELSE BAdd(BShlDigits(BMulDigit(x, y[i]), i - 1), BMulFrom(x, y, i + 1))

BMul(x, y) == BTrim(BMulFrom(x, y, 1))

\* Bit i of x, bit 0 the lowest.
Bit(x, i) ==
  IF i \div 15 + 1 > Len(x) THEN 0
  ELSE (x[i \div 15 + 1] \div 2^(i % 15)) % 2

\* The number of bits of x.
BitLen(x) ==
  IF x = <<>> THEN 0
  ELSE 15 * (Len(x) - 1)
         + (CHOOSE b \in 1..15 : 2^(b - 1) <= x[Len(x)] /\ x[Len(x)] < 2^b)

\* x \div 2^k
BShr(x, k) ==
  LET q == k \div 15
      r == k % 15
      digit(j) == IF j > Len(x) THEN 0 ELSE x[j]
  IN  IF Len(x) <= q THEN <<>>
      ELSE BTrim([j \in 1..(Len(x) - q) |->
                    digit(j + q) \div 2^r
                      + (digit(j + q + 1) % 2^r) * 2^(15 - r)])

\* x divided by the digit d > 0: [q, r], scanning from the high digit; q
\* collects the digits of the quotient, lowest first.
RECURSIVE BDivFrom(_, _, _, _, _)
BDivFrom(x, d, i, r, q) ==
  IF i = 0 THEN [q |-> BTrim(q), r |-> r]
  ELSE BDivFrom(x, d, i - 1, (r * Base + x[i]) % d,
                <<(r * Base + x[i]) \div d>> \o q)

BDivDigit(x, d) == BDivFrom(x, d, Len(x), 0, <<>>)

Zero == [neg |-> FALSE, m |-> <<>>, e |-> 0]

\* The number of low zero bits of x # <<>>.
LowZeros(x) ==
  CHOOSE i \in 0..(BitLen(x) - 1) :
    Bit(x, i) = 1 /\ \A j \in 0..(i - 1) : Bit(x, j) = 0

\* (-1)^neg * m * 2^e in the normal form of this model.
Canon(neg, m, e) ==
  IF BTrim(m) = <<>> THEN Zero
  ELSE [neg |-> neg, m |-> BShr(BTrim(m), LowZeros(BTrim(m))),
        e |-> e + LowZeros(BTrim(m))]

\* Rounding of an exact value to Precision bits, nearest, ties to even.
RoundNearestEven(v) ==
  LET d == BitLen(v.m) - Precision IN
  IF d <= 0 THEN v
  ELSE LET sticky == \E i \in 0..(d - 2) : Bit(v.m, i) = 1
           up == Bit(v.m, d - 1) = 1 /\ (sticky \/ Bit(v.m, d) = 1)
       IN  Canon(v.neg,
                 IF up THEN BAdd(BShr(v.m, d), <<1>>) ELSE BShr(v.m, d),
                 v.e + d)

FNeg(a) == IF a.m = <<>> THEN a ELSE [a EXCEPT !.neg = ~a.neg]

\* a + b without rounding
ExactAdd(a, b) ==
  LET e0 == IF a.e < b.e THEN a.e ELSE b.e
      ma == BShl(a.m, a.e - e0)
      mb == BShl(b.m, b.e - e0)
  IN  IF a.neg = b.neg THEN Canon(a.neg, BAdd(ma, mb), e0)
      ELSE IF BCmp(ma, mb) >= 0 THEN Canon(a.neg, BSub(ma, mb), e0)
      ELSE Canon(b.neg, BSub(mb, ma), e0)

\* The operators +, - and * of the code.
FAdd(a, b) == RoundNearestEven(ExactAdd(a, b))
FSub(a, b) == RoundNearestEven(ExactAdd(a, FNeg(b)))
FMul(a, b) ==
  RoundNearestEven(Canon(a.neg # b.neg, BMul(a.m, b.m), a.e + b.e))

\* The largest q in lo..hi with d * q <= r.
RECURSIVE QuotDigit(_, _, _, _)
QuotDigit(r, d, lo, hi) ==
  IF lo = hi THEN lo
  ELSE IF BCmp(BMulDigit(d, (lo + hi + 1) \div 2), r) <= 0
    THEN QuotDigit(r, d, (lo + hi + 1) \div 2, hi)
  ELSE QuotDigit(r, d, lo, (lo + hi + 1) \div 2 - 1)

\* x divided by d # <<>>: [q, r], one digit of the quotient at a time from the
\* high end; r1 is the remainder so far with the next digit of x appended,
\* qd the digit of the quotient.
RECURSIVE BDivLongFrom(_, _, _, _, _)
BDivLongFrom(x, d, i, r, q) ==
  IF i = 0 THEN [q |-> BTrim(q), r |-> r]
  ELSE CHOOSE out \in
         UNION {{BDivLongFrom(x, d, i - 1, BSub(r1, BMulDigit(d, qd)),
                              <<qd>> \o q) :
                   qd \in {QuotDigit(r1, d, 0, Base - 1)}} :
                r1 \in {BTrim(<<x[i]>> \o r)}} : TRUE

BDivLong(x, d) == BDivLongFrom(x, d, Len(x), <<>>, <<>>)

\* The operator / of the code, for a divisor b # 0: the quotient to
\* Precision + 3 bits and more, then one bit that tells whether a remainder
\* was left.
FDiv(a, b) ==
  IF a.m = <<>> THEN Zero
  ELSE LET k == Precision + 3 + BitLen(b.m) IN
       CHOOSE out \in
         {RoundNearestEven(
            Canon(a.neg # b.neg,
                  BAdd(BShl(res.q, 1), IF res.left THEN <<1>> ELSE <<>>),
                  a.e - k - b.e - 1)) :
          res \in {IF Len(b.m) = 1
                     THEN [q |-> BDivDigit(BShl(a.m, k), b.m[1]).q,
                           left |-> BDivDigit(BShl(a.m, k), b.m[1]).r # 0]
                     ELSE [q |-> BDivLong(BShl(a.m, k), b.m).q,
                           left |-> BDivLong(BShl(a.m, k), b.m).r # <<>>]}} : TRUE

\* The operators <, <= of the code on finite numbers
FSign(a) == IF a.m = <<>> THEN 0 ELSE IF a.neg THEN -1 ELSE 1
FLt(a, b) == FSign(ExactAdd(a, FNeg(b))) < 0
FLe(a, b) == FSign(ExactAdd(a, FNeg(b))) <= 0

\* An integer literal, and the decimal literal n / 10^k given as (n, 10^k),
\* which the language reads as the nearest number.
FInt(n) ==
  IF n < 0 THEN Canon(TRUE, NatDigits(-n), 0) ELSE Canon(FALSE, NatDigits(n), 0)
FDec(n, scale) == FDiv(FInt(n), FInt(scale))

\* Number(x.toFixed(digits)) with scale = 10^digits: the multiple of 1 / scale
\* nearest to x, a half rounded away from zero, read back as a number.
toFixed(x, scale) ==
  LET num == BMul(x.m, NatDigits(scale))
      n == IF x.e >= 0 THEN BShl(num, x.e)
           ELSE BShr(BAdd(num, BShl(<<1>>, -x.e - 1)), -x.e)
  IN  FDiv(Canon(x.neg, n, 0), FInt(scale))

----------------------------------------------------------------------------
(* interpAtTws and lerp on the numbers of the code.                        *)

\* lerp
lerp(a, b, t) == FAdd(a, FMul(FSub(b, a), t))

\* The first i (from 1) with windSpeeds[i] <= tws <= windSpeeds[i + 1], if any.
Bracket(windSpeeds, tws) ==
  LET found == {i \in 1..(Len(windSpeeds) - 1) :
                  FLe(windSpeeds[i], tws) /\ FLe(tws, windSpeeds[i + 1])}
  IN  IF found = {} THEN None
      ELSE Some(CHOOSE i \in found : \A j \in found : i <= j)

\* A faulty variant: the slope of the first interval is carried on below the
\* axis.
interpAtTws64_extrapolate(values, windSpeeds, tws) ==
  IF Len(values) # Len(windSpeeds) \/ Len(windSpeeds) < 2 THEN None
  ELSE IF FLe(windSpeeds[Len(windSpeeds)], tws) THEN Some(values[Len(values)])
  ELSE IF FLe(tws, windSpeeds[1])
    THEN Some(lerp(values[1], values[2],
                   FDiv(FSub(tws, windSpeeds[1]),
                        FSub(windSpeeds[2], windSpeeds[1]))))
  ELSE \* as interpAtTws
       (LET i == Bracket(windSpeeds, tws)[1]
        IN  Some(lerp(values[i], values[i + 1],
                      FDiv(FSub(tws, windSpeeds[i]),
                           FSub(windSpeeds[i + 1], windSpeeds[i])))))

\* interpAtTws for a finite tws, on sequences of finite numbers: None is
\* undefined.  On empty sequences of equal length every comparison of the
\* code meets undefined and fails.
interpAtTws64(values, windSpeeds, tws) ==
  IF Len(values) # Len(windSpeeds) THEN None
  ELSE IF Len(windSpeeds) = 0 THEN None
  ELSE IF FLe(tws, windSpeeds[1]) THEN Some(values[1])
  ELSE IF FLe(windSpeeds[Len(windSpeeds)], tws) THEN Some(values[Len(windSpeeds)])
  ELSE IF Bracket(windSpeeds, tws) = None THEN None
  ELSE LET i == Bracket(windSpeeds, tws)[1]
       IN  Some(lerp(values[i], values[i + 1],
                     FDiv(FSub(tws, windSpeeds[i]),
                          FSub(windSpeeds[i + 1], windSpeeds[i]))))

----------------------------------------------------------------------------
(* interpAtTws as a function: sample series, axes and query winds.         *)

\* The longest axis of the samples.
MaxSteps == 3

\* Speeds in knots: 1.03, 2.45, 3.1, 5.05, 7.3
SampleValues ==
  {FDec(103, 100), FDec(245, 100), FDec(31, 10), FDec(505, 100), FDec(73, 10)}

SampleSeries == UNION {[1..n -> SampleValues] : n \in 1..MaxSteps}

FSeq(ints) == [i \in 1..Len(ints) |-> FInt(ints[i])]

\* The first steps of the standard axis and of an uneven one.
SampleAxes ==
  {FSeq(SubSeq(axis, 1, n)) :
     axis \in {STANDARD_WIND_SPEEDS, <<4, 7, 16, 25, 40>>}, n \in 2..MaxSteps}

\* 2, 4, 5, 6, 7, 7.5, 8, 9, 10, 12, 16, 50
SampleWinds ==
  {FInt(2), FInt(4), FInt(5), FInt(6), FInt(7), FDec(75, 10), FInt(8),
   FInt(9), FInt(10), FInt(12), FInt(16), FInt(50)}

\* The arguments of one call, before it is made.
InitInterp ==
  /\ map = <<>>
  /\ hits = 0
  /\ misses = 0
  /\ now = 0
  /\ \E values \in SampleSeries, windSpeeds \in SampleAxes, tws \in SampleWinds :
       last = Obs("args", NoStr, "none",
                  [values |-> values, wind |-> windSpeeds, tws |-> tws], <<>>)
  /\ used = <<>>
  /\ setAt = [k \in Keys |-> -1]
  /\ hist = FreshHist
  /\ built = <<>>
  /\ pc = [p \in Procs |-> Idle]

Interp ==
  /\ last.op = "args"
  /\ last' = Obs("interpAtTws", NoStr, "none",
                 [values |-> last.val.values, wind |-> last.val.wind,
                  tws |-> last.val.tws,
                  out |-> interpAtTws64(last.val.values, last.val.wind,
                                        last.val.tws)], <<>>)
  /\ UNCHANGED <<pc, built, map, hits, misses, now, used, setAt, hist>>

NextInterp == Interp

SpecInterp == InitInterp /\ [][NextInterp]_vars

\* The contract's words on the last call.
Called == last.op = "interpAtTws"

StrictlyIncreasing(w) == \A i \in 1..(Len(w) - 1) : FLt(w[i], w[i + 1])

InContract ==
  /\ Called
  /\ Len(last.val.values) = Len(last.val.wind)
  /\ Len(last.val.wind) >= 2
  /\ StrictlyIncreasing(last.val.wind)

\* C11: on a series as long as the axis (two steps or more, strictly
\* increasing), a query wind at or below the first step gets exactly
\* series[first] and one at or above the last step exactly series[last].
C11_FlatClamp ==
  InContract =>
    LET w == last.val.wind
        n == Len(w)
    IN  /\ FLe(last.val.tws, w[1]) => last.val.out = Some(last.val.values[1])
        /\ FLe(w[n], last.val.tws) => last.val.out = Some(last.val.values[n])

\* A query below the axis answered by the first value, which differs from
\* the second.
C11_Witness ==
  /\ InContract
  /\ FLt(last.val.tws, last.val.wind[1])
  /\ last.val.values[1] # last.val.values[2]
  /\ last.val.out = Some(last.val.values[1])

\* The interior steps the query wind of the last call is equal to.
InteriorStepsHit ==
  {k \in 2..(Len(last.val.wind) - 1) : last.val.wind[k] = last.val.tws}

\* C12: a query wind equal to an interior step windSteps[k] gets exactly
\* series[k].
C12_ExactAtInteriorStep ==
  InContract =>
    \A k \in InteriorStepsHit : last.val.out = Some(last.val.values[k])

\* The scan stops in the interval that ends at the step, and the answer is
\* one unit in the last place away from the step's value.
C12_DriftAtStep ==
  /\ InContract
  /\ \E k \in InteriorStepsHit :
       /\ Bracket(last.val.wind, last.val.tws) = Some(k - 1)
       /\ last.val.out # None
       /\ last.val.out # Some(last.val.values[k])

\* At an interior step whose value is at most twice and at least half the
\* value before it, b - a is exact and the step's value is returned.
C12_ExactWithinFactorTwo ==
  InContract =>
    \A k \in InteriorStepsHit :
      LET a == last.val.values[k - 1]
          b == last.val.values[k]
      IN  (FLe(a, FMul(FInt(2), b)) /\ FLe(b, FMul(FInt(2), a)))
            => last.val.out = Some(b)

\* x lies between a and b, ends included, whichever is the larger.
Between(x, a, b) ==
  \/ FLe(a, x) /\ FLe(x, b)
  \/ FLe(b, x) /\ FLe(x, a)

\* The intervals of the axis that hold the query wind of the last call.
Brackets ==
  {i \in 1..(Len(last.val.wind) - 1) :
     FLe(last.val.wind[i], last.val.tws) /\ FLe(last.val.tws, last.val.wind[i + 1])}

StrictlyInside ==
  /\ InContract
  /\ FLt(last.val.wind[1], last.val.tws)
  /\ FLt(last.val.tws, last.val.wind[Len(last.val.wind)])

\* C13: for a query wind strictly inside the axis the result is defined and
\* lies between series[i] and series[i+1] of a bracketing interval i.
C13_BetweenNeighbours ==
  StrictlyInside =>
    /\ last.val.out # None
    /\ \E i \in Brackets :
         Between(last.val.out[1], last.val.values[i], last.val.values[i + 1])

\* Strictly inside the axis the result is never undefined.
C13_NeverUndefined == StrictlyInside => last.val.out # None

\* Off the steps of the axis the result lies between the two neighbours.
C13_BetweenOffSteps ==
  (StrictlyInside /\ \A k \in 1..Len(last.val.wind) : last.val.wind[k] # last.val.tws) =>
    \A i \in Brackets :
      /\ last.val.out # None
      /\ Between(last.val.out[1], last.val.values[i], last.val.values[i + 1])

\* A result above both neighbours of the step the query wind is equal to.
C13_Overshoot ==
  /\ StrictlyInside
  /\ last.val.out # None
  /\ \A i \in Brackets :
       /\ FLt(last.val.values[i], last.val.out[1])
       /\ FLt(last.val.values[i + 1], last.val.out[1])

----------------------------------------------------------------------------
(* The cosine of the solver.                                               *)

\* The angles of the samples, in quarters of a degree.
CosKeys ==
  {80, 100, 120, 135, 150, 160, 164, 165, 168, 170,
   172, 180, 184, 190, 196, 200, 202, 204, 206, 208,
   216, 224, 225, 232, 240, 250, 255, 270, 275, 280, 285,
   300, 360, 440, 480, 540, 600}

\* Math.cos(toRad(deg)) at deg = q / 4, as the number the library returns.
CosTable ==
  [q \in CosKeys |->
     CASE
         q = 80 -> [neg |-> FALSE, m |-> <<2887, 8489, 4598, 60>>, e |-> -51] []
         q = 100 -> [neg |-> FALSE, m |-> <<22375, 24667, 484, 232>>, e |-> -53] []
         q = 120 -> [neg |-> FALSE, m |-> <<19627, 20656, 23019, 221>>, e |-> -53] []
         q = 135 -> [neg |-> FALSE, m |-> <<8611, 21021, 28056, 212>>, e |-> -53] []
         q = 150 -> [neg |-> FALSE, m |-> <<4681, 2903, 17997, 101>>, e |-> -52] []
         q = 160 -> [neg |-> FALSE, m |-> <<20537, 17822, 3518, 196>>, e |-> -53] []
         q = 164 -> [neg |-> FALSE, m |-> <<9095, 11560, 4938, 24>>, e |-> -50] []
         q = 165 -> [neg |-> FALSE, m |-> <<20485, 5831, 1929, 24>>, e |-> -50] []
         q = 168 -> [neg |-> FALSE, m |-> <<24417, 10291, 4015, 95>>, e |-> -52] []
         q = 170 -> [neg |-> FALSE, m |-> <<29601, 21018, 6086, 47>>, e |-> -51] []
         q = 172 -> [neg |-> FALSE, m |-> <<27011, 16784, 7423, 187>>, e |-> -53] []
         q = 180 -> [neg |-> FALSE, m |-> <<15309, 19710, 633, 181>>, e |-> -53] []
         q = 184 -> [neg |-> FALSE, m |-> <<29457, 25024, 27280, 177>>, e |-> -53] []
         q = 190 -> [neg |-> FALSE, m |-> <<8359, 13773, 31165, 172>>, e |-> -53] []
         q = 196 -> [neg |-> FALSE, m |-> <<5109, 16540, 32367, 41>>, e |-> -51] []
         q = 200 -> [neg |-> FALSE, m |-> <<5661, 9336, 18141, 164>>, e |-> -53] []
         q = 202 -> [neg |-> FALSE, m |-> <<21433, 23324, 23232, 40>>, e |-> -51] []
         q = 204 -> [neg |-> FALSE, m |-> <<15711, 1096, 18121, 80>>, e |-> -52] []
         q = 206 -> [neg |-> FALSE, m |-> <<31247, 8552, 11919, 159>>, e |-> -53] []
         q = 208 -> [neg |-> FALSE, m |-> <<18745, 25467, 19966, 157>>, e |-> -53] []
         q = 216 -> [neg |-> FALSE, m |-> <<11567, 1141, 7750, 75>>, e |-> -52] []
         q = 224 -> [neg |-> FALSE, m |-> <<32393, 1041, 18897, 71>>, e |-> -52] []
         q = 225 -> [neg |-> FALSE, m |-> <<26825, 29532, 7404, 142>>, e |-> -53] []
         q = 232 -> [neg |-> FALSE, m |-> <<28309, 16044, 27186, 67>>, e |-> -52] []
         q = 240 -> [neg |-> FALSE, m |-> <<1, 0, 0, 128>>, e |-> -53] []
         q = 250 -> [neg |-> FALSE, m |-> <<22331, 7272, 13608, 236>>, e |-> -54] []
         q = 255 -> [neg |-> FALSE, m |-> <<26363, 29168, 14804, 226>>, e |-> -54] []
         q = 270 -> [neg |-> FALSE, m |-> <<10841, 21335, 32226, 48>>, e |-> -52] []
         q = 275 -> [neg |-> FALSE, m |-> <<10265, 20560, 25694, 92>>, e |-> -53] []
         q = 280 -> [neg |-> FALSE, m |-> <<3063, 26900, 3745, 175>>, e |-> -54] []
         q = 285 -> [neg |-> FALSE, m |-> <<23971, 21959, 9453, 82>>, e |-> -53] []
         q = 300 -> [neg |-> FALSE, m |-> <<12393, 14386, 9247, 8>>, e |-> -50] []
         q = 360 -> [neg |-> FALSE, m |-> <<23559, 26152, 6296, 141>>, e |-> -106] []
         q = 440 -> [neg |-> TRUE, m |-> <<3061, 26900, 3745, 175>>, e |-> -54] []
         q = 480 -> [neg |-> TRUE, m |-> <<32767, 32767, 32767, 63>>, e |-> -52] []
         q = 540 -> [neg |-> TRUE, m |-> <<20211, 13119, 8350, 45>>, e |-> -51] []
         q = 600 -> [neg |-> TRUE, m |-> <<19627, 20656, 23019, 221>>, e |-> -53]]

Quarters == [q \in CosKeys |-> FDec(q, 4)]

\* Math.cos(toRad(deg)) for a number deg of the table.
cosToRad(deg) == CosTable[CHOOSE q \in CosKeys : Quarters[q] = deg]

----------------------------------------------------------------------------
(* The solver on the numbers of the code: computeReaching, the estimates   *)
(* from the angle series, computeOptimal.  A polar is                      *)
(* [wind, beatAngles, beatVmg, gybeAngles, runVmg, angleSpeeds], the four  *)
(* direct series optional, angleSpeeds a function on the angles it has.    *)

\* typeof bs === 'number' && Number.isFinite(bs) && bs > 0
FinitePositive64(o) == o # None /\ FSign(o[1]) > 0

calculateDownwindVMG(twa, bs) == FMul(bs, cosToRad(FSub(FInt(180), twa)))

calculateUpwindVMG(twa, bs) == FMul(bs, cosToRad(twa))

\* interpAtTws(polar.angleSpeeds[angle], polar.wind, tws)
speedAt(polar, tws, angle) ==
  interpAtTws64(polar.angleSpeeds[angle], polar.wind, tws)

\* A faulty variant: an entry for every angle of the table.
reachKeys_all(polar, tws) ==
  {a \in DOMAIN polar.angleSpeeds : FinitePositive64(speedAt(polar, tws, a))}

\* The entries computeReaching writes.
reachKeys(polar, tws) ==
  {a \in REACH_ANGLES :
     /\ a \in DOMAIN polar.angleSpeeds
     /\ Len(polar.angleSpeeds[a]) = Len(polar.wind)
     /\ FinitePositive64(speedAt(polar, tws, a))}

\* A faulty variant: past 90 degrees the angle is projected as on a run.
reachingVmg_byPointOfSail(angle, bs) ==
  IF angle > 90 THEN calculateDownwindVMG(FInt(angle), bs)
  ELSE calculateUpwindVMG(FInt(angle), bs)

\* const vmg = calculateUpwindVMG(angle, bs)
reachingVmg(angle, bs) == calculateUpwindVMG(FInt(angle), bs)

computeReaching(polar, tws) ==
  [a \in reachKeys(polar, tws) |->
     CHOOSE entry \in
       {[twa_deg |-> FInt(a),
         target_bs_kt |-> toFixed(bs[1], 100),
         vmg_kt |-> toFixed(reachingVmg(a, bs[1]), 100)] :
        bs \in {speedAt(polar, tws, a)}} : TRUE]

RECURSIVE Ascending(_)
Ascending(S) ==
  IF S = {} THEN <<>>
  ELSE LET m == CHOOSE x \in S : \A y \in S : x <= y
       IN  <<m>> \o Ascending(S \ {m})

\* Object.keys(polar.angleSpeeds).map(Number).filter(...).sort(...)
angleSet(polar, lo, hi) ==
  Ascending({a \in DOMAIN polar.angleSpeeds : a >= lo /\ a <= hi})

vmgOf(down, twa, bs) ==
  IF down THEN calculateDownwindVMG(twa, bs) ELSE calculateUpwindVMG(twa, bs)

\* 0.25, 0.5, 0.75
RefineSteps == <<FDec(25, 100), FDec(5, 10), FDec(75, 100)>>

\* The candidates one round of the loop compares with best, in order: the
\* sample at angles[i], then the three points toward angles[i + 1].
candidatesAt(polar, tws, angles, i, down, bs, nextBs) ==
  IF ~FinitePositive64(bs) THEN <<>>
  ELSE <<[twa |-> FInt(angles[i]),
          vmg |-> vmgOf(down, FInt(angles[i]), bs[1]),
          bs |-> bs[1]]>>
       \o (IF i < Len(angles) /\ FinitePositive64(nextBs)
             THEN [j \in 1..3 |->
                     CHOOSE c \in
                       {[twa |-> interpAngle,
                         vmg |-> vmgOf(down, interpAngle, interpBs),
                         bs |-> interpBs] :
                        interpAngle \in {lerp(FInt(angles[i]), FInt(angles[i + 1]),
                                              RefineSteps[j])},
                        interpBs \in {lerp(bs[1], nextBs[1], RefineSteps[j])}} :
                       TRUE]
           ELSE <<>>)

RECURSIVE candidates(_, _, _, _, _)
candidates(polar, tws, angles, i, down) ==
  IF i > Len(angles) THEN <<>>
  ELSE (CHOOSE round \in
          {candidatesAt(polar, tws, angles, i, down, bs, nextBs) :
             bs \in {speedAt(polar, tws, angles[i])},
             nextBs \in {IF i < Len(angles)
                           THEN speedAt(polar, tws, angles[i + 1])
                         ELSE None}} : TRUE)
         \o candidates(polar, tws, angles, i + 1, down)

\* A faulty variant: the last candidate is kept.
bestOf_last(cands, i, best) ==
  IF cands = <<>> THEN best ELSE cands[Len(cands)]

\* if (vmg > best.vmg) best = candidate, over the candidates from i on.
RECURSIVE bestOf(_, _, _)
bestOf(cands, i, best) ==
  IF i > Len(cands) THEN best
  ELSE bestOf(cands, i + 1,
              IF FLt(best.vmg, cands[i].vmg) THEN cands[i] ELSE best)

findOptimalFromAngles(polar, tws, lo, hi, twa0, down) ==
  IF angleSet(polar, lo, hi) = <<>> THEN None
  ELSE CHOOSE out \in
         {IF FSign(best.vmg) > 0 THEN Some(best) ELSE None :
            best \in {bestOf(cands, 1, [twa |-> FInt(twa0), vmg |-> FInt(-1),
                                        bs |-> Zero]) :
                        cands \in {candidates(polar, tws, angleSet(polar, lo, hi),
                                              1, down)}}} : TRUE

findOptimalUpwindFromAngles(polar, tws) ==
  findOptimalFromAngles(polar, tws, 35, 75, 45, FALSE)

findOptimalDownwindFromAngles(polar, tws) ==
  findOptimalFromAngles(polar, tws, 135, 179, 160, TRUE)

BeatNote == "Beat vinkel/VMG estimeret fra vinkelraekker"
GybeNote == "Gybe vinkel/VMG estimeret fra vinkelraekker"

\* A faulty variant: a direct series of the wrong length is read up to the
\* axis' first step.
direct_anyLength(series, polar, tws) ==
  IF series = None \/ series[1] = <<>> THEN None
  ELSE IF Len(series[1]) = Len(polar.wind)
    THEN interpAtTws64(series[1], polar.wind, tws)
  ELSE Some(series[1][1])

\* series ? interpAtTws(series, polar.wind, tws) : undefined
direct(series, polar, tws) ==
  IF series = None THEN None ELSE interpAtTws64(series[1], polar.wind, tws)

\* A faulty variant: a direction without data is left out of the result.
computeOptimal_finish_partial(polar, tws, beatAngle, beatVmg, gybeAngle, runVmg, notes) ==
  IF (beatAngle = None \/ beatVmg = None) /\ (gybeAngle = None \/ runVmg = None)
    THEN [ok |-> FALSE, err |-> "E_INSUFFICIENT_DATA"]
  ELSE [ok |-> TRUE,
        up |-> IF beatAngle = None \/ beatVmg = None THEN None
               ELSE [twa |-> toFixed(beatAngle[1], 10),
                     vmg |-> toFixed(beatVmg[1], 100),
                     bs |-> toFixed(FDiv(beatVmg[1], cosToRad(beatAngle[1])), 100)],
        dn |-> IF gybeAngle = None \/ runVmg = None THEN None
               ELSE [twa |-> toFixed(gybeAngle[1], 10),
                     vmg |-> toFixed(runVmg[1], 100),
                     bs |-> toFixed(FDiv(runVmg[1],
                                         cosToRad(FSub(FInt(180), gybeAngle[1]))),
                                    100)],
        reaching |-> computeReaching(polar, tws),
        notes |-> notes]

\* The second half of computeOptimal: the four values after the fallbacks.
computeOptimal_finish(polar, tws, beatAngle, beatVmg, gybeAngle, runVmg, notes) ==
  IF beatAngle = None \/ beatVmg = None \/ gybeAngle = None \/ runVmg = None
    THEN [ok |-> FALSE, err |-> "E_INSUFFICIENT_DATA"]
  ELSE [ok |-> TRUE,
        up |-> [twa |-> toFixed(beatAngle[1], 10),
                vmg |-> toFixed(beatVmg[1], 100),
                bs |-> toFixed(FDiv(beatVmg[1], cosToRad(beatAngle[1])), 100)],
        dn |-> [twa |-> toFixed(gybeAngle[1], 10),
                vmg |-> toFixed(runVmg[1], 100),
                bs |-> toFixed(FDiv(runVmg[1],
                                    cosToRad(FSub(FInt(180), gybeAngle[1]))),
                               100)],
        reaching |-> computeReaching(polar, tws),
        notes |-> notes]

\* A faulty variant: the estimate is taken whenever there is one.
resolve_preferEstimate(angle0, vmg0, found) ==
  IF found # None
    THEN [angle |-> Some(found[1].twa), vmg |-> Some(found[1].vmg), est |-> TRUE]
  ELSE [angle |-> angle0, vmg |-> vmg0, est |-> FALSE]

\* The first half of computeOptimal for one direction: the direct values,
\* and the estimate where one of them is undefined.  [angle, vmg, est].
resolve(angle0, vmg0, found) ==
  IF (angle0 = None \/ vmg0 = None) /\ found # None
    THEN [angle |-> Some(found[1].twa), vmg |-> Some(found[1].vmg), est |-> TRUE]
  ELSE [angle |-> angle0, vmg |-> vmg0, est |-> FALSE]

computeOptimal64(polar, tws) ==
  CHOOSE out \in
    {computeOptimal_finish(polar, tws, up.angle, up.vmg, dn.angle, dn.vmg,
                           (IF up.est THEN <<BeatNote>> ELSE <<>>)
                             \o (IF dn.est THEN <<GybeNote>> ELSE <<>>)) :
       up \in {resolve(direct(polar.beatAngles, polar, tws),
                       direct(polar.beatVmg, polar, tws),
                       findOptimalUpwindFromAngles(polar, tws))},
       dn \in {resolve(direct(polar.gybeAngles, polar, tws),
                       direct(polar.runVmg, polar, tws),
                       findOptimalDownwindFromAngles(polar, tws))}} : TRUE

----------------------------------------------------------------------------
(* The solver as functions: sample polars and query winds.                 *)

\* The axis of the sample polars: 6, 10.
SolveWind == FSeq(<<6, 10>>)

\* Query winds: 8 (half way) and 12 (above the axis).
SolveTws == {FInt(8), FInt(12)}

\* Speed series in knots: 4..5, 5.5..6, a crawl of 0.01..0.02, no speed, and
\* one of the wrong length.
SpeedSeries ==
  {FSeq(<<4, 5>>), <<FDec(55, 10), FInt(6)>>,
   <<FDec(1, 100), FDec(2, 100)>>, FSeq(<<0, 0>>), FSeq(<<5>>)}

AngleSets ==
  {{}} \cup {{a} : a \in {40, 50} \cup REACH_ANGLES}
       \cup {{40, 50}, {135, 150}, {50, 150}}

\* Tables of one or two angles, and tables of three upwind angles.
AngleTables ==
  UNION {[A -> SpeedSeries] : A \in AngleSets}
    \cup [{40, 50, 75} -> {FSeq(<<4, 5>>), FSeq(<<0, 0>>), FSeq(<<5>>)}]

\* Direct series of a beat: none, both, or a VMG series of the wrong length.
UpDirect ==
  {[angles |-> None, vmg |-> None],
   [angles |-> Some(FSeq(<<42, 40>>)), vmg |-> Some(<<FDec(35, 10), FInt(4)>>)],
   [angles |-> Some(FSeq(<<42, 40>>)), vmg |-> Some(<<FDec(35, 10)>>)]}

\* Direct series of a run: none, both, or the VMG series alone.
DnDirect ==
  {[angles |-> None, vmg |-> None],
   [angles |-> Some(FSeq(<<150, 160>>)), vmg |-> Some(<<FDec(45, 10), FDec(55, 10)>>)],
   [angles |-> None, vmg |-> Some(<<FDec(45, 10), FDec(55, 10)>>)]}

SamplePolars ==
  {[wind |-> SolveWind,
    beatAngles |-> u.angles, beatVmg |-> u.vmg,
    gybeAngles |-> d.angles, runVmg |-> d.vmg,
    angleSpeeds |-> t] : u \in UpDirect, d \in DnDirect, t \in AngleTables}

\* The arguments of one call, before it is made.
InitSolve ==
  /\ map = <<>>
  /\ hits = 0
  /\ misses = 0
  /\ now = 0
  /\ \E polar \in SamplePolars, tws \in SolveTws :
       last = Obs("args", NoStr, "none", [polar |-> polar, tws |-> tws], <<>>)
  /\ used = <<>>
  /\ setAt = [k \in Keys |-> -1]
  /\ hist = FreshHist
  /\ built = <<>>
  /\ pc = [p \in Procs |-> Idle]

ComputeOptimal ==
  /\ last.op = "args"
  /\ last' = Obs("computeOptimal", NoStr, "none",
                 [polar |-> last.val.polar, tws |-> last.val.tws,
                  out |-> computeOptimal64(last.val.polar, last.val.tws)], <<>>)
  /\ UNCHANGED <<pc, built, map, hits, misses, now, used, setAt, hist>>

ComputeReaching ==
  /\ last.op = "args"
  /\ last' = Obs("computeReaching", NoStr, "none",
                 [polar |-> last.val.polar, tws |-> last.val.tws,
                  out |-> computeReaching(last.val.polar, last.val.tws)], <<>>)
  /\ UNCHANGED <<pc, built, map, hits, misses, now, used, setAt, hist>>

FindUpwind ==
  /\ last.op = "args"
  /\ last' = Obs("findOptimalUpwindFromAngles", NoStr, "none",
                 [polar |-> last.val.polar, tws |-> last.val.tws,
                  out |-> findOptimalUpwindFromAngles(last.val.polar, last.val.tws)], <<>>)
  /\ UNCHANGED <<pc, built, map, hits, misses, now, used, setAt, hist>>

FindDownwind ==
  /\ last.op = "args"
  /\ last' = Obs("findOptimalDownwindFromAngles", NoStr, "none",
                 [polar |-> last.val.polar, tws |-> last.val.tws,
                  out |-> findOptimalDownwindFromAngles(last.val.polar, last.val.tws)], <<>>)
  /\ UNCHANGED <<pc, built, map, hits, misses, now, used, setAt, hist>>

NextSolve ==
  \/ ComputeOptimal
  \/ ComputeReaching
  \/ FindUpwind
  \/ FindDownwind

SpecSolve == InitSolve /\ [][NextSolve]_vars

----------------------------------------------------------------------------
(* Claims on the solver.                                                   *)

Polar == last.val.polar
Tws == last.val.tws
Out == last.val.out

WrongLength(polar, series) == Len(series) # Len(polar.wind)

\* The angles of the table whose series has the wrong length.
ShortAngles(polar) ==
  {a \in DOMAIN polar.angleSpeeds : WrongLength(polar, polar.angleSpeeds[a])}

ShortDirect(polar, series) == series # None /\ WrongLength(polar, series[1])

\* The polar without its direct series of the wrong length.
WithoutShortDirect(polar) ==
  [polar EXCEPT
     !.beatAngles = IF ShortDirect(polar, @) THEN None ELSE @,
     !.beatVmg = IF ShortDirect(polar, @) THEN None ELSE @,
     !.gybeAngles = IF ShortDirect(polar, @) THEN None ELSE @,
     !.runVmg = IF ShortDirect(polar, @) THEN None ELSE @]

\* The angles of the table in lo..hi next to a, or the ends of the range.
Below(polar, a, lo, hi) ==
  LET S == {b \in DOMAIN polar.angleSpeeds : b >= lo /\ b < a}
  IN  IF S = {} THEN lo - 1 ELSE CHOOSE b \in S : \A c \in S : c <= b
Above(polar, a, lo, hi) ==
  LET S == {b \in DOMAIN polar.angleSpeeds : b <= hi /\ b > a}
  IN  IF S = {} THEN hi + 1 ELSE CHOOSE b \in S : \A c \in S : b <= c

\* The estimate owes nothing to the angles of the wrong length: it is neither
\* at such an angle nor between it and a neighbour.
AvoidsShort(polar, found, lo, hi) ==
  found # None =>
    \A a \in ShortAngles(polar) :
      (a >= lo /\ a <= hi) =>
        ~(/\ FLt(FInt(Below(polar, a, lo, hi)), found[1].twa)
          /\ FLt(found[1].twa, FInt(Above(polar, a, lo, hi))))

AllSeries(polar) ==
  {polar.angleSpeeds[a] : a \in DOMAIN polar.angleSpeeds}
    \cup {o[1] : o \in {polar.beatAngles, polar.beatVmg, polar.gybeAngles,
                        polar.runVmg} \ {None}}

\* C14: a series whose length differs from the axis' is treated as absent:
\* interpAtTws has no value for it; computeOptimal gives what it gives without
\* the direct series of the wrong length, its direction resolved by the
\* estimate or not at all; computeReaching has no key for it; the estimates
\* owe nothing to it.
C14_WrongLengthAbsent ==
  /\ last.op # "new" =>
       \A series \in AllSeries(Polar) :
         WrongLength(Polar, series) =>
           interpAtTws64(series, Polar.wind, Tws) = None
  /\ (last.op = "computeOptimal" /\ WithoutShortDirect(Polar) # Polar) =>
       /\ Out = computeOptimal64(WithoutShortDirect(Polar), Tws)
       /\ (Out.ok /\ (ShortDirect(Polar, Polar.beatAngles)
                        \/ ShortDirect(Polar, Polar.beatVmg)))
            => \E i \in 1..Len(Out.notes) : Out.notes[i] = BeatNote
       /\ (Out.ok /\ (ShortDirect(Polar, Polar.gybeAngles)
                        \/ ShortDirect(Polar, Polar.runVmg)))
            => \E i \in 1..Len(Out.notes) : Out.notes[i] = GybeNote
  /\ last.op = "computeOptimal" =>
       (Out.ok => DOMAIN Out.reaching \cap ShortAngles(Polar) = {})
  /\ last.op = "computeReaching" => DOMAIN Out \cap ShortAngles(Polar) = {}
  /\ last.op = "findOptimalUpwindFromAngles" => AvoidsShort(Polar, Out, 35, 75)
  /\ last.op = "findOptimalDownwindFromAngles" => AvoidsShort(Polar, Out, 135, 179)

\* A beat VMG series of the wrong length beside a good angle series, and the
\* beat resolved by the estimate.
C14_Witness ==
  /\ last.op = "computeOptimal"
  /\ ShortDirect(Polar, Polar.beatVmg)
  /\ ~ShortDirect(Polar, Polar.beatAngles) /\ Polar.beatAngles # None
  /\ Out.ok
  /\ Out.notes[1] = BeatNote

HasNote(notes, note) == \E i \in 1..Len(notes) : notes[i] = note

\* The direction's answer is the direct one, without a note, where both
\* direct series have a value at the query wind, and is the estimate, with
\* the note, where they have not.
PathOf(answer, angle0, vmg0, found, notes, note) ==
  IF angle0 # None /\ vmg0 # None
    THEN /\ answer.twa = toFixed(angle0[1], 10)
         /\ answer.vmg = toFixed(vmg0[1], 100)
         /\ ~HasNote(notes, note)
  ELSE /\ found # None
       /\ answer.twa = toFixed(found[1].twa, 10)
       /\ answer.vmg = toFixed(found[1].vmg, 100)
       /\ HasNote(notes, note)

\* C15: per direction computeOptimal answers from the direct series whenever
\* both have a value at the query wind and from the estimate only otherwise;
\* the notes hold the direction's note exactly when its answer is the
\* estimate, the beat's note before the run's.
C15_DirectBeforeEstimate ==
  (last.op = "computeOptimal" /\ Out.ok) =>
    /\ PathOf(Out.up, direct(Polar.beatAngles, Polar, Tws),
              direct(Polar.beatVmg, Polar, Tws),
              findOptimalUpwindFromAngles(Polar, Tws), Out.notes, BeatNote)
    /\ PathOf(Out.dn, direct(Polar.gybeAngles, Polar, Tws),
              direct(Polar.runVmg, Polar, Tws),
              findOptimalDownwindFromAngles(Polar, Tws), Out.notes, GybeNote)
    /\ Out.notes \in {<<>>, <<BeatNote>>, <<GybeNote>>, <<BeatNote, GybeNote>>}

\* Both directions estimated.
C15_Witness ==
  /\ last.op = "computeOptimal"
  /\ Out.ok
  /\ Out.notes = <<BeatNote, GybeNote>>

\* A beat answered from its direct series although the angle series would
\* give an estimate.
C15_DirectPreferred ==
  /\ last.op = "computeOptimal"
  /\ Out.ok
  /\ ~HasNote(Out.notes, BeatNote)
  /\ findOptimalUpwindFromAngles(Polar, Tws) # None

\* The sampled candidates: the angles of the table in lo..hi with a finite
\* positive speed at the query wind.
Sampled(polar, tws, lo, hi) ==
  {a \in DOMAIN polar.angleSpeeds :
     a >= lo /\ a <= hi /\ FinitePositive64(speedAt(polar, tws, a))}

\* The estimate is no worse than any sampled candidate and its angle is
\* within the sampled candidates.
Dominates(polar, tws, found, lo, hi, down) ==
  \A a \in Sampled(polar, tws, lo, hi) :
    /\ FLe(vmgOf(down, FInt(a), speedAt(polar, tws, a)[1]), found.vmg)
    /\ \E b, c \in Sampled(polar, tws, lo, hi) :
         FLe(FInt(b), found.twa) /\ FLe(found.twa, FInt(c))

\* The same on the result of computeOptimal, whose numbers are rounded.
DominatesRounded(polar, tws, answer, lo, hi, down) ==
  \A a \in Sampled(polar, tws, lo, hi) :
    /\ FLe(toFixed(vmgOf(down, FInt(a), speedAt(polar, tws, a)[1]), 100),
           answer.vmg)
    /\ \E b, c \in Sampled(polar, tws, lo, hi) :
         FLe(FInt(b), answer.twa) /\ FLe(answer.twa, FInt(c))

\* C16: the VMG of an estimate is at least the VMG of every sampled
\* candidate angle in range (35..75 on a beat, 135..179 on a run) with a
\* finite positive speed, and its angle lies between the smallest and the
\* largest of them; so for the rounded answer of computeOptimal.
C16_EstimateDominatesSamples ==
  /\ (last.op = "findOptimalUpwindFromAngles" /\ Out # None) =>
       /\ Sampled(Polar, Tws, 35, 75) # {}
       /\ Dominates(Polar, Tws, Out[1], 35, 75, FALSE)
  /\ (last.op = "findOptimalDownwindFromAngles" /\ Out # None) =>
       /\ Sampled(Polar, Tws, 135, 179) # {}
       /\ Dominates(Polar, Tws, Out[1], 135, 179, TRUE)
  /\ (last.op = "computeOptimal" /\ Out.ok) =>
       /\ HasNote(Out.notes, BeatNote) =>
            DominatesRounded(Polar, Tws, Out.up, 35, 75, FALSE)
       /\ HasNote(Out.notes, GybeNote) =>
            DominatesRounded(Polar, Tws, Out.dn, 135, 179, TRUE)

\* An estimate between two sampled angles that beats both.
C16_Witness ==
  /\ last.op = "findOptimalUpwindFromAngles"
  /\ Out # None
  /\ Sampled(Polar, Tws, 35, 75) = {40, 50}
  /\ FLt(FInt(40), Out[1].twa) /\ FLt(Out[1].twa, FInt(50))
  /\ \A a \in {40, 50} :
       FLt(calculateUpwindVMG(FInt(a), speedAt(Polar, Tws, a)[1]), Out[1].vmg)

\* A result of computeOptimal for a polar without direct beat series whose
\* angles in 35..75 are 40 and 50, both with a finite positive speed.
ScenarioB ==
  /\ last.op = "computeOptimal"
  /\ Out.ok
  /\ Polar.beatAngles = None /\ Polar.beatVmg = None
  /\ {a \in DOMAIN Polar.angleSpeeds : a >= 35 /\ a <= 75} = {40, 50}
  /\ Sampled(Polar, Tws, 35, 75) = {40, 50}

Vmg50Exceeds40 ==
  FLt(calculateUpwindVMG(FInt(40), speedAt(Polar, Tws, 40)[1]),
      calculateUpwindVMG(FInt(50), speedAt(Polar, Tws, 50)[1]))

\* C17: without direct beat series and with speeds at 40 and 50 degrees that
\* both give a positive VMG, computeOptimal reports the beat's note and,
\* whenever the VMG at 50 exceeds the VMG at 40, answers an angle strictly
\* between 40 and 50.
C17_StrictlyBetween ==
  ScenarioB =>
    /\ HasNote(Out.notes, BeatNote)
    /\ Vmg50Exceeds40 =>
         FLt(FInt(40), Out.up.twa) /\ FLt(Out.up.twa, FInt(50))

\* The VMG at 50 exceeds the VMG at 40 and the answer is 50 itself.
C17_AnswerIsFifty ==
  /\ ScenarioB
  /\ Vmg50Exceeds40
  /\ Out.up.twa = FInt(50)

\* The note is reported and the angle is within 40..50, ends included.
C17_NoteAndWithin ==
  ScenarioB =>
    /\ HasNote(Out.notes, BeatNote)
    /\ FLe(FInt(40), Out.up.twa) /\ FLe(Out.up.twa, FInt(50))

\* The VMG at 50 exceeds the VMG at 40 and the answer is strictly between.
C17_AnswerInside ==
  /\ ScenarioB
  /\ Vmg50Exceeds40
  /\ FLt(FInt(40), Out.up.twa) /\ FLt(Out.up.twa, FInt(50))

\* The direction has data: both direct series have a value at the query
\* wind, or the angle series give an estimate.
Available(angles, vmg, found) ==
  \/ direct(angles, Polar, Tws) # None /\ direct(vmg, Polar, Tws) # None
  \/ found # None

UpAvailable ==
  Available(Polar.beatAngles, Polar.beatVmg,
            findOptimalUpwindFromAngles(Polar, Tws))

DnAvailable ==
  Available(Polar.gybeAngles, Polar.runVmg,
            findOptimalDownwindFromAngles(Polar, Tws))

\* C18: computeOptimal throws the insufficient-data error whenever a
\* direction is unavailable, and every result it returns carries an angle and
\* a VMG for the beat and for the run; never a result for one direction only.
C18_BothOrError ==
  last.op = "computeOptimal" =>
    /\ ~(UpAvailable /\ DnAvailable) =>
         Out = [ok |-> FALSE, err |-> "E_INSUFFICIENT_DATA"]
    /\ Out.ok =>
         /\ UpAvailable /\ DnAvailable
         /\ {"twa", "vmg"} \subseteq DOMAIN Out.up
         /\ {"twa", "vmg"} \subseteq DOMAIN Out.dn

\* The beat has data, the run has none, and the call throws.
C18_Witness ==
  /\ last.op = "computeOptimal"
  /\ UpAvailable
  /\ ~DnAvailable
  /\ ~Out.ok

\* The table has an entry at exactly the angle a, as long as the axis, whose
\* interpolated speed at the query wind is finite and positive.
UsableEntry(polar, tws, a) ==
  /\ a \in DOMAIN polar.angleSpeeds
  /\ ~WrongLength(polar, polar.angleSpeeds[a])
  /\ FinitePositive64(interpAtTws64(polar.angleSpeeds[a], polar.wind, tws))

\* The keys of the reaching map are the reaching angles with a usable entry.
ReachingKeysRight(reaching) ==
  /\ DOMAIN reaching \subseteq {52, 60, 75, 90, 110, 120, 135, 150}
  /\ \A a \in {52, 60, 75, 90, 110, 120, 135, 150} :
       a \in DOMAIN reaching <=> UsableEntry(Polar, Tws, a)
  /\ \A a \in DOMAIN reaching : reaching[a].twa_deg = FInt(a)

\* C19: the reaching map has keys only from 52, 60, 75, 90, 110, 120, 135,
\* 150, and has a key exactly when the table has a usable entry at that
\* angle; without an entry at 90 there is no key 90; and computeOptimal
\* returns whenever both directions have data, whatever the reaching angles.
C19_ReachingKeys ==
  /\ last.op = "computeReaching" => ReachingKeysRight(Out)
  /\ last.op = "computeOptimal" =>
       /\ (UpAvailable /\ DnAvailable) => Out.ok
       /\ Out.ok => ReachingKeysRight(Out.reaching)

\* A map with a key, from a table that has an unusable entry at another
\* reaching angle or a usable one at an angle outside the reaching set.
C19_Witness ==
  /\ last.op = "computeReaching"
  /\ DOMAIN Out # {}
  /\ \E a \in DOMAIN Polar.angleSpeeds \ DOMAIN Out :
       \/ a \in REACH_ANGLES
       \/ FinitePositive64(speedAt(Polar, Tws, a))

\* computeOptimal returns with an empty reaching map.
C19_ReturnsWithoutReaching ==
  /\ last.op = "computeOptimal"
  /\ Out.ok
  /\ DOMAIN Out.reaching = {}
  /\ DOMAIN Polar.angleSpeeds # {}

\* The interpolated speed behind a reaching entry.
SpeedOf(a) == speedAt(Polar, Tws, a)[1]

Positive(x) == FSign(x) > 0
Negative(x) == FSign(x) < 0

C20_RoundedToZero ==
  /\ last.op = "computeReaching"
  /\ \E a \in DOMAIN Out \ {90} :
       Positive(Out[a].target_bs_kt) /\ Out[a].vmg_kt = Zero

----------------------------------------------------------------------------
(* The unit conversions of polar.ts on the numbers of the code.            *)

\* toKnots
toKnots64(secPerNm) ==
  [i \in 1..Len(secPerNm) |->
     IF FSign(secPerNm[i]) <= 0 THEN Zero
     ELSE toFixed(FDiv(FInt(3600), secPerNm[i]), 100)]

\* values.reduce((a, b) => a + b, 0), from the element i on.
RECURSIVE reduceSum(_, _, _)
reduceSum(values, i, acc) ==
  IF i > Len(values) THEN acc
  ELSE reduceSum(values, i + 1, FAdd(acc, values[i]))

\* normalizeVmgToKnots.  data is absent (None), an array
\* ([kind |-> "array", series]) or an object that holds the array under
\* values or data ([kind |-> "values" or "data", series]).  For an array,
\* data.values is the array's own method values, which is truthy and is not
\* an array.
normalizeVmgToKnots64(data) ==
  IF data = None THEN None
  ELSE IF data.kind = "array" THEN None
  ELSE IF data.series = <<>> THEN None
  ELSE IF FLt(FInt(100),
              FDiv(reduceSum(data.series, 1, Zero), FInt(Len(data.series))))
    THEN Some(toKnots64(data.series))
  ELSE Some([i \in 1..Len(data.series) |-> toFixed(data.series[i], 100)])

\* Elements of a series: -3, 0, 0.004, 5.5, 600, 900, 1000000.
UnitValues ==
  {FInt(-3), Zero, FDec(4, 1000), FDec(55, 10), FInt(600), FInt(900),
   FInt(1000000)}

UnitSeries == {<<>>} \cup [1..1 -> UnitValues] \cup [1..2 -> UnitValues]

UnitData ==
  {None} \cup [kind : {"array", "values", "data"}, series : UnitSeries]

\* The argument of one call, before it is made.
InitUnits ==
  /\ map = <<>>
  /\ hits = 0
  /\ misses = 0
  /\ now = 0
  /\ \E data \in UnitData :
       last = Obs("args", NoStr, "none", [data |-> data], <<>>)
  /\ used = <<>>
  /\ setAt = [k \in Keys |-> -1]
  /\ hist = FreshHist
  /\ built = <<>>
  /\ pc = [p \in Procs |-> Idle]

ToKnots ==
  /\ last.op = "args"
  /\ last.val.data # None
  /\ last.val.data.kind = "array"
  /\ last' = Obs("toKnots", NoStr, "none",
                 [series |-> last.val.data.series,
                  out |-> Some(toKnots64(last.val.data.series))], <<>>)
  /\ UNCHANGED <<pc, built, map, hits, misses, now, used, setAt, hist>>

NormalizeVmgToKnots ==
  /\ last.op = "args"
  /\ last' = Obs("normalizeVmgToKnots", NoStr, "none",
                 [series |-> IF last.val.data = None THEN <<>>
                             ELSE last.val.data.series,
                  out |-> normalizeVmgToKnots64(last.val.data)], <<>>)
  /\ UNCHANGED <<pc, built, map, hits, misses, now, used, setAt, hist>>

NextUnits ==
  \/ ToKnots
  \/ NormalizeVmgToKnots

SpecUnits == InitUnits /\ [][NextUnits]_vars

\* A converted series is at hand.
Converted ==
  /\ last.op \in {"toKnots", "normalizeVmgToKnots"}
  /\ last.val.out # None

\* The mean of the series exceeds 100, computed exactly: sum > 100 * length.
RECURSIVE ExactSum(_, _)
ExactSum(values, i) ==
  IF i > Len(values) THEN Zero
  ELSE ExactAdd(values[i], ExactSum(values, i + 1))

MeanExceeds100(values) ==
  FSign(ExactAdd(ExactSum(values, 1), FNeg(FInt(100 * Len(values))))) > 0

\* C21: the conversion gives speed 0 for every element <= 0 and a speed > 0
\* for every element > 0 of a series of durations, whichever representation
\* was detected, and gives no negative element.
C21_NonPositiveToZero ==
  Converted =>
    \A i \in 1..Len(last.val.series) :
      /\ FSign(last.val.series[i]) <= 0 => last.val.out[1][i] = Zero
      /\ (FSign(last.val.series[i]) > 0
            /\ (last.op = "toKnots" \/ MeanExceeds100(last.val.series)))
           => FSign(last.val.out[1][i]) > 0
      /\ FSign(last.val.out[1][i]) >= 0

\* A series detected as speeds whose negative element is kept.
C21_NegativeKept ==
  /\ last.op = "normalizeVmgToKnots"
  /\ last.val.out # None
  /\ \E i \in 1..Len(last.val.series) :
       FSign(last.val.series[i]) < 0 /\ last.val.out[1][i] = last.val.series[i]

\* A duration > 0 whose speed is 0.
C21_PositiveToZero ==
  /\ last.op = "toKnots"
  /\ \E i \in 1..Len(last.val.series) :
       FSign(last.val.series[i]) > 0 /\ last.val.out[1][i] = Zero

\* toKnots alone: 0 for every element <= 0, no negative element, and a speed
\* > 0 for every duration from 0.004 up to 900.
C21_ToKnotsAlone ==
  last.op = "toKnots" =>
    \A i \in 1..Len(last.val.series) :
      /\ FSign(last.val.series[i]) <= 0 => last.val.out[1][i] = Zero
      /\ FSign(last.val.out[1][i]) >= 0
      /\ (FSign(last.val.series[i]) > 0 /\ FLe(last.val.series[i], FInt(900)))
           => FSign(last.val.out[1][i]) > 0

----------------------------------------------------------------------------
(* parsePolarFromOrcJson on sample payloads.                               *)

\* Beat: absent, durations, a series already in knots (5 and 6), empty.
BeatSamples == {None, Some(<<900, 600>>), Some(<<5, 6>>), Some(<<>>)}

\* R52: absent, as long as the axis, shorter than the axis, empty.
ReachSamples == {None, Some(<<700, 600>>), Some(<<700>>), Some(<<>>)}

SamplePayloads ==
  {PNoRms, PNoAllowances}
    \cup {[rms |-> Some([Allowances |-> Some(
             [WindSpeeds |-> w, BeatAngle |-> IF b = None THEN None
                                              ELSE Some(<<42, 40>>),
              Beat |-> b,
              GybeAngle |-> IF r = None THEN None ELSE Some(<<150, 160>>),
              Run |-> r,
              R |-> [a \in REACH_ANGLES |-> IF a = 52 THEN c ELSE None]])])] :
            w \in {None, Some(<<6, 10>>)}, b \in BeatSamples,
            r \in {None, Some(<<800, 500>>)}, c \in ReachSamples}

\* The payload of one call, before it is made.
InitParse ==
  /\ map = <<>>
  /\ hits = 0
  /\ misses = 0
  /\ now = 0
  /\ \E orcJson \in SamplePayloads :
       last = Obs("args", NoStr, "none", [orcJson |-> orcJson], <<>>)
  /\ used = <<>>
  /\ setAt = [k \in Keys |-> -1]
  /\ hist = FreshHist
  /\ built = <<>>
  /\ pc = [p \in Procs |-> Idle]

ParsePolar ==
  /\ last.op = "args"
  /\ \E o \in {parsePolarFromOrcJson(last.val.orcJson)} :
       last' = Obs("parsePolarFromOrcJson", NoStr, o.err,
                   [orcJson |-> last.val.orcJson, out |-> o], <<>>)
  /\ UNCHANGED <<pc, built, map, hits, misses, now, used, setAt, hist>>

NextParse == ParsePolar

SpecParse == InitParse /\ [][NextParse]_vars

\* A model was returned for a payload that has Allowances.
Parsed == last.op = "parsePolarFromOrcJson" /\ last.val.out.ok

Allowances == last.val.orcJson.rms[1].Allowances[1]
Model == last.val.out.polar[1]

RECURSIVE SumOf(_, _)
SumOf(values, i) ==
  IF i > Len(values) THEN 0 ELSE values[i] + SumOf(values, i + 1)

\* The unit heuristic as stated: durations when the mean exceeds 100, else
\* speeds kept (in hundredths of a knot).
ByMean(values) ==
  IF SumOf(values, 1) > 100 * Len(values) THEN toKnots(values)
  ELSE [i \in 1..Len(values) |-> 100 * values[i]]

\* C22: every speed series the builder ingests (Beat, Run, the reaching
\* channels) is converted by the mean heuristic: as durations when its mean
\* exceeds 100, kept as speeds otherwise.
C22_MeanHeuristicApplied ==
  Parsed =>
    /\ Allowances.Beat # None =>
         Model.beatVmg = Some(ByMean(Allowances.Beat[1]))
    /\ Allowances.Run # None =>
         Model.runVmg = Some(ByMean(Allowances.Run[1]))
    /\ \A a \in DOMAIN Model.angleSpeeds :
         Model.angleSpeeds[a] = ByMean(Allowances.R[a][1])

\* A series of speeds (5 and 6 knots) comes out as 720 and 600 knots.
C22_SpeedsTakenAsDurations ==
  /\ Parsed
  /\ Allowances.Beat = Some(<<5, 6>>)
  /\ Model.beatVmg = Some(<<72000, 60000>>)

\* What the builder does: every series goes through toKnots.
C22_AlwaysToKnots ==
  Parsed =>
    /\ Allowances.Beat # None =>
         Model.beatVmg = Some(toKnots(Allowances.Beat[1]))
    /\ Allowances.Run # None =>
         Model.runVmg = Some(toKnots(Allowances.Run[1]))
    /\ \A a \in DOMAIN Model.angleSpeeds :
         Model.angleSpeeds[a] = toKnots(Allowances.R[a][1])

\* Does the payload hold a speed series with an element?
HasSeries(allowances) ==
  \/ allowances.Beat # None /\ allowances.Beat[1] # <<>>
  \/ allowances.Run # None /\ allowances.Run[1] # <<>>
  \/ \E a \in REACH_ANGLES :
       allowances.R[a] # None /\ allowances.R[a][1] # <<>>

\* C23: no model is returned for a payload without any speed series (no
\* upwind, no downwind and no reaching series): the parse fails instead.
C23_FailsWithoutSeries ==
  Parsed => HasSeries(Allowances)

\* A model without beatVmg, runVmg and reaching entries is returned.
C23_EmptyModelReturned ==
  /\ Parsed
  /\ Allowances.Beat = None /\ Allowances.Run = None
  /\ \A a \in REACH_ANGLES : Allowances.R[a] = None
  /\ Model.beatVmg = None /\ Model.runVmg = None
  /\ DOMAIN Model.angleSpeeds = {}

\* The parse does fail where the code throws: no rms[0], no Allowances.
C23_FailsWithoutAllowances ==
  last.op = "parsePolarFromOrcJson" =>
    (last.val.out.ok <=>
       (last.val.orcJson.rms # None
          /\ last.val.orcJson.rms[1].Allowances # None))

\* C24: each series of the angle-speed table of a returned model is as long
\* as the wind-step axis of the model.
C24_TableSeriesMatchAxis ==
  Parsed =>
    \A a \in DOMAIN Model.angleSpeeds :
      Len(Model.angleSpeeds[a]) = Len(Model.wind)

\* A one-element R52 series is in the table of a model with a two-step axis.
C24_ShortSeriesInserted ==
  /\ Parsed
  /\ Model.wind = <<6, 10>>
  /\ 52 \in DOMAIN Model.angleSpeeds
  /\ Len(Model.angleSpeeds[52]) = 1

\* What the builder does: a channel is in the table exactly when the payload
\* holds a non-empty array for it.
C24_InsertedWhenNonEmpty ==
  Parsed =>
    DOMAIN Model.angleSpeeds
      = {a \in REACH_ANGLES : Allowances.R[a] # None /\ Allowances.R[a][1] # <<>>}

\* Allowances without any series.
PEmpty ==
  [rms |-> Some([Allowances |-> Some(
     [WindSpeeds |-> None, BeatAngle |-> None, Beat |-> None,
      GybeAngle |-> None, Run |-> None, R |-> NoReach])])]

\* Under Spec: a pending request with a key, whose fetch answers PEmpty, has
\* the empty model stored under its key before computeOptimal throws.
C23_EmptyModelCached ==
  \E p \in Procs :
    /\ pc[p].st = "fetching"
    /\ pc[p].key # NoStr
    /\ \E o \in {optimal_resume(Cache, pc[p].key, pc[p].tws,
                                [ok |-> TRUE, json |-> PEmpty], now, now)} :
         /\ o.stored
         /\ MapHas(o.cache.map, pc[p].key)
         /\ MapGet(o.cache.map, pc[p].key).value.polar.beatVmg = None
         /\ o.out = "E_INSUFFICIENT_DATA"

----------------------------------------------------------------------------
(* The router: GET /api/orc/optimal.  Error messages are sequences of      *)
(* characters, as the strings of the request are.                          *)

\* 'tws parameter er påkrævet'
MsgTwsRequired ==
  <<"t", "w", "s", " ", "p", "a", "r", "a", "m", "e", "t", "e", "r", " ",
    "e", "r", " ", "p", "å", "k", "r", "æ", "v", "e", "t">>

\* 'tws skal være et positivt tal'
MsgTwsPositive ==
  <<"t", "w", "s", " ", "s", "k", "a", "l", " ", "v", "æ", "r", "e", " ",
    "e", "t", " ", "p", "o", "s", "i", "t", "i", "v", "t", " ", "t", "a",
    "l">>

\* 'tws skal være mellem 2 og 50 knob'
MsgTwsRange ==
  <<"t", "w", "s", " ", "s", "k", "a", "l", " ", "v", "æ", "r", "e", " ",
    "m", "e", "l", "l", "e", "m", " ", "2", " ", "o", "g", " ", "5", "0",
    " ", "k", "n", "o", "b">>

\* 'Mindst én identifier skal være givet: refNo, sailNo, eller yachtName'
MsgNoIdentifier ==
  <<"M", "i", "n", "d", "s", "t", " ", "é", "n", " ", "i", "d", "e", "n",
    "t", "i", "f", "i", "e", "r", " ", "s", "k", "a", "l", " ", "v", "æ",
    "r", "e", " ", "g", "i", "v", "e", "t", ":", " ", "r", "e", "f", "N",
    "o", ",", " ", "s", "a", "i", "l", "N", "o", ",", " ", "e", "l", "l",
    "e", "r", " ", "y", "a", "c", "h", "t", "N", "a", "m", "e">>

\* 'countryId skal være givet når yachtName bruges alene'
MsgCountryRequired ==
  <<"c", "o", "u", "n", "t", "r", "y", "I", "d", " ", "s", "k", "a", "l",
    " ", "v", "æ", "r", "e", " ", "g", "i", "v", "e", "t", " ", "n", "å",
    "r", " ", "y", "a", "c", "h", "t", "N", "a", "m", "e", " ", "b", "r",
    "u", "g", "e", "s", " ", "a", "l", "e", "n", "e">>

\* 'Ingen RMS data fundet i ORC response'
MsgNoRms ==
  <<"I", "n", "g", "e", "n", " ", "R", "M", "S", " ", "d", "a", "t", "a",
    " ", "f", "u", "n", "d", "e", "t", " ", "i", " ", "O", "R", "C", " ",
    "r", "e", "s", "p", "o", "n", "s", "e">>

\* 'Ingen Allowances data fundet i ORC response'
MsgNoAllowances ==
  <<"I", "n", "g", "e", "n", " ", "A", "l", "l", "o", "w", "a", "n", "c",
    "e", "s", " ", "d", "a", "t", "a", " ", "f", "u", "n", "d", "e", "t",
    " ", "i", " ", "O", "R", "C", " ", "r", "e", "s", "p", "o", "n", "s",
    "e">>

\* 'Mangler tilstrækkelige data til at beregne optimale vinkler/VMG'
MsgInsufficient ==
  <<"M", "a", "n", "g", "l", "e", "r", " ", "t", "i", "l", "s", "t", "r",
    "æ", "k", "k", "e", "l", "i", "g", "e", " ", "d", "a", "t", "a", " ",
    "t", "i", "l", " ", "a", "t", " ", "b", "e", "r", "e", "g", "n", "e",
    " ", "o", "p", "t", "i", "m", "a", "l", "e", " ", "v", "i", "n", "k",
    "l", "e", "r", "/", "V", "M", "G">>

\* 'ORC API HTTP 503: Service Unavailable'
MsgOrcHttp ==
  <<"O", "R", "C", " ", "A", "P", "I", " ", "H", "T", "T", "P", " ", "5",
    "0", "3", ":", " ", "S", "e", "r", "v", "i", "c", "e", " ", "U", "n",
    "a", "v", "a", "i", "l", "a", "b", "l", "e">>

\* 'fetch failed'
MsgFetchFailed ==
  <<"f", "e", "t", "c", "h", " ", "f", "a", "i", "l", "e", "d">>

\* 'parameter'
PatParameter ==
  <<"p", "a", "r", "a", "m", "e", "t", "e", "r">>

\* 'identifier'
PatIdentifier ==
  <<"i", "d", "e", "n", "t", "i", "f", "i", "e", "r">>

\* 'Mangler tilstrækkelige data'
PatInsufficient ==
  <<"M", "a", "n", "g", "l", "e", "r", " ", "t", "i", "l", "s", "t", "r",
    "æ", "k", "k", "e", "l", "i", "g", "e", " ", "d", "a", "t", "a">>

\* 'ORC API'
PatOrcApi ==
  <<"O", "R", "C", " ", "A", "P", "I">>

\* String.prototype.includes
Includes(s, pat) ==
  \E i \in 0..(Len(s) - Len(pat)) : SubSeq(s, i + 1, i + Len(pat)) = pat

IsDigit(c) == c \in {"0", "1", "2", "3", "4", "5", "6", "7", "8", "9"}

DigitVal(c) ==
  CASE c = "0" -> 0 [] c = "1" -> 1 [] c = "2" -> 2 [] c = "3" -> 3
    [] c = "4" -> 4 [] c = "5" -> 5 [] c = "6" -> 6 [] c = "7" -> 7
    [] c = "8" -> 8 [] c = "9" -> 9

\* The value of the longest prefix of digits of s, after acc.
RECURSIVE digitsValue(_, _)
digitsValue(s, acc) ==
  IF s = <<>> \/ ~IsDigit(Head(s)) THEN acc
  ELSE digitsValue(Tail(s), 10 * acc + DigitVal(Head(s)))

\* parseFloat for a string without decimal point, exponent or 'Infinity':
\* leading blanks are skipped, a sign is read, then the longest prefix of
\* digits; NaN when there is no digit.
parseFloat(s) ==
  LET t == trimStart(s)
      neg == t # <<>> /\ Head(t) = "-"
      u == IF t # <<>> /\ Head(t) \in {"-", "+"} THEN Tail(t) ELSE t
  IN  IF u = <<>> \/ ~IsDigit(Head(u)) THEN TNaN
      ELSE TNum(IF neg THEN 0 - digitsValue(u, 0) ELSE digitsValue(u, 0))

\* validateAndParseQuery: [err, request]; err is NoStr when it returns.
\* An absent query parameter is the empty string.
validateAndParseQuery(query) ==
  LET twsNum == parseFloat(query.tws)
      none == [tws |-> TNaN, refNo |-> NoStr, sailNo |-> NoStr,
               yachtName |-> NoStr, countryId |-> NoStr]
  IN  IF ~Truthy(query.tws) THEN [err |-> MsgTwsRequired, request |-> none]
      ELSE IF twsNum.nan \/ JsLe(twsNum, 0)
        THEN [err |-> MsgTwsPositive, request |-> none]
      ELSE IF JsLt(twsNum, 2) \/ JsGt(twsNum, 50)
        THEN [err |-> MsgTwsRange, request |-> none]
      ELSE IF ~Truthy(query.refNo) /\ ~Truthy(query.sailNo)
                /\ ~Truthy(query.yachtName)
        THEN [err |-> MsgNoIdentifier, request |-> none]
      ELSE IF Truthy(query.yachtName) /\ ~Truthy(query.countryId)
                /\ ~Truthy(query.refNo) /\ ~Truthy(query.sailNo)
        THEN [err |-> MsgCountryRequired, request |-> none]
      ELSE [err |-> NoStr,
            request |-> [tws |-> twsNum, refNo |-> trim(query.refNo),
                         sailNo |-> trim(query.sailNo),
                         yachtName |-> trim(query.yachtName),
                         countryId |-> trim(query.countryId)]]

\* The message of the error that validateOptimalRequest throws.
MessageOf(code) ==
  CASE code = "E_TWS_POSITIVE" -> MsgTwsPositive
    [] code = "E_TWS_RANGE" -> MsgTwsRange
    [] code = "E_NO_IDENTIFIER" -> MsgNoIdentifier
    [] code = "E_COUNTRY_REQUIRED" -> MsgCountryRequired

\* The catch block of the route: the status by the message of the error.
statusOf(message) ==
  IF Includes(message, PatParameter) \/ Includes(message, PatIdentifier)
    THEN 400
  ELSE IF Includes(message, PatInsufficient) THEN 404
  ELSE IF Includes(message, PatOrcApi) THEN 502
  ELSE 500

\* What happens to optimal() past its validation: a result (NoStr) or the
\* message of the error thrown by the fetch, the parse or the solver.
Downstream ==
  {NoStr, MsgOrcHttp, MsgFetchFailed, MsgNoRms, MsgNoAllowances,
   MsgInsufficient}

\* router.get('/optimal'): [invalid, message, status].
getOptimal(query, downstream) ==
  LET v == validateAndParseQuery(query) IN
  IF v.err # NoStr
    THEN [invalid |-> TRUE, message |-> v.err, status |-> statusOf(v.err)]
  ELSE IF validateOptimalRequest(v.request) # "ok"
    THEN [invalid |-> TRUE,
          message |-> MessageOf(validateOptimalRequest(v.request)),
          status |-> statusOf(MessageOf(validateOptimalRequest(v.request)))]
  ELSE IF downstream = NoStr
    THEN [invalid |-> FALSE, message |-> NoStr, status |-> 200]
  ELSE [invalid |-> FALSE, message |-> downstream,
        status |-> statusOf(downstream)]

\* Query strings: tws absent, 'abc', '0', '-3', '1', '2', '12', '50', '51',
\* '999', '12kn'; refNo absent, 'r', ' '; the other identifiers absent or set.
Queries ==
  [tws : {NoStr, <<"a", "b", "c">>, <<"0">>, <<"-", "3">>, <<"1">>, <<"2">>,
          <<"1", "2">>, <<"5", "0">>, <<"5", "1">>, <<"9", "9", "9">>,
          <<"1", "2", "k", "n">>},
   refNo : {NoStr, <<"r">>, <<" ">>}, sailNo : {NoStr, <<"s">>},
   yachtName : {NoStr, <<"y">>}, countryId : {NoStr, <<"D">>}]

\* The query of one request, before it is handled.
InitRouter ==
  /\ map = <<>>
  /\ hits = 0
  /\ misses = 0
  /\ now = 0
  /\ \E query \in Queries :
       last = Obs("args", NoStr, "none", [query |-> query], <<>>)
  /\ used = <<>>
  /\ setAt = [k \in Keys |-> -1]
  /\ hist = FreshHist
  /\ built = <<>>
  /\ pc = [p \in Procs |-> Idle]

GetOptimal(downstream) ==
  /\ last.op = "args"
  /\ \E o \in {getOptimal(last.val.query, downstream)} :
       last' = Obs("GET /optimal", NoStr, "none",
                   [query |-> last.val.query, invalid |-> o.invalid,
                    message |-> o.message, status |-> o.status], <<>>)
  /\ UNCHANGED <<pc, built, map, hits, misses, now, used, setAt, hist>>

NextRouter == \E downstream \in Downstream : GetOptimal(downstream)

SpecRouter == InitRouter /\ [][NextRouter]_vars

Answered == last.op = "GET /optimal"

\* C25: a request that fails the validation of its parameters (tws missing,
\* not a number, not positive, outside 2..50, no identifier, yachtName alone
\* without countryId) is answered with status 400.
C25_InvalidGives400 ==
  (Answered /\ last.val.invalid) => last.val.status = 400

\* tws = 999 with a refNo is answered with 500.
C25_RangeGives500 ==
  /\ Answered
  /\ last.val.query.tws = <<"9", "9", "9">>
  /\ last.val.query.refNo = <<"r">>
  /\ last.val.message = MsgTwsRange
  /\ last.val.status = 500

\* The status is 400 exactly for the two messages that hold 'parameter' or
\* 'identifier' (tws missing, no identifier) and 500 for the other three.
C25_StatusByMessage ==
  (Answered /\ last.val.invalid) =>
    /\ last.val.message \in {MsgTwsRequired, MsgNoIdentifier}
         => last.val.status = 400
    /\ last.val.message \in {MsgTwsPositive, MsgTwsRange, MsgCountryRequired}
         => last.val.status = 500

----------------------------------------------------------------------------
(* The hit and miss counters on the request path, checked under Spec.      *)

\* The step is a call of optimal() that passed validation with a key.
KeyedCall == last'.op = "optimal" /\ last'.key # NoStr

\* C26: every optimal() call with a non-empty key increments exactly one of
\* the counters: hits when it is served from the cache, misses when it has to
\* fetch upstream.
C26_ExactlyOneCounter ==
  [][KeyedCall =>
       IF last'.res = "await fetchOrcJson"
         THEN misses' = misses + 1 /\ hits' = hits
         ELSE hits' = hits + 1 /\ misses' = misses]_vars

\* A keyed call went upstream and both counters are still 0.
C26_FetchWithoutMiss ==
  /\ last.op = "optimal" /\ last.key # NoStr
  /\ last.res = "await fetchOrcJson"
  /\ \E p \in Procs : pc[p].st = "fetching" /\ pc[p].key = last.key
  /\ hits = 0 /\ misses = 0

\* What the code does: a keyed call served from the cache counts one hit; a
\* keyed call that goes upstream counts nothing, except one miss when the
\* entry was found by has() and had expired when get() read the clock.
C26_HitsOnly ==
  [][KeyedCall =>
       IF last'.res = "await fetchOrcJson"
         THEN /\ hits' = hits
              /\ misses' \in {misses, misses + 1}
              /\ misses' = misses + 1 =>
                   (MapHas(map, last'.key) /\ now' > now)
         ELSE hits' = hits + 1 /\ misses' = misses]_vars

\* C28: every accepted request has a non-empty key (a request identified by
\* sailNo alone included): no request is waiting for its fetch without one.
C28_AcceptedHasKey ==
  \A p \in Procs : pc[p].st = "fetching" => pc[p].key # NoStr

\* A keyless request was answered from upstream and nothing was stored.
C28_KeylessNotCached ==
  /\ last.op = "fetched" /\ last.key = NoStr /\ last.res = "ok"
  /\ last.val.cached = FALSE
  /\ map = <<>>

\* The accepted requests without a key are those with a sailNo and neither
\* refNo, countryId nor yachtName.
C28_KeylessIsSailNoAlone ==
  \A p \in Procs :
    (pc[p].st = "fetching" /\ pc[p].key = NoStr) =>
      \A r \in Requests :
        (Accepted(r) /\ generateCacheKey(r) = NoStr) =>
          /\ Truthy(r.sailNo)
          /\ ~Truthy(r.refNo) /\ ~Truthy(r.countryId) /\ ~Truthy(r.yachtName)

----------------------------------------------------------------------------
(* The key of a request against the parameters of its upstream query.      *)

\* fetchOrcJson, the identity parameters of the query (NoStr: not sent).
upstreamParams(req) ==
  IF Truthy(req.refNo)
    THEN [RefNo |-> req.refNo, SailNo |-> NoStr, YachtName |-> NoStr,
          CountryId |-> NoStr]
  ELSE [RefNo |-> NoStr, SailNo |-> req.sailNo, YachtName |-> req.yachtName,
        CountryId |-> req.countryId]

\* The request of one call of getOrcData, before it is made.
InitIdentity ==
  /\ map = <<>>
  /\ hits = 0
  /\ misses = 0
  /\ now = 0
  /\ \E req \in KeyRequests :
       last = Obs("args", NoStr, "none", [req |-> req], <<>>)
  /\ used = <<>>
  /\ setAt = [k \in Keys |-> -1]
  /\ hist = FreshHist
  /\ built = <<>>
  /\ pc = [p \in Procs |-> Idle]

\* getOrcData on a miss: the key, then the query of fetchOrcJson.
GetOrcDataMiss ==
  /\ last.op = "args"
  /\ validateOptimalRequest(last.val.req) = "ok"
  /\ last' = Obs("fetchOrcJson", generateCacheKey(last.val.req), "none",
                 [req |-> last.val.req,
                  params |-> upstreamParams(last.val.req)], <<>>)
  /\ UNCHANGED <<pc, built, map, hits, misses, now, used, setAt, hist>>

NextIdentity == GetOrcDataMiss

SpecIdentity == InitIdentity /\ [][NextIdentity]_vars

\* C27: two accepted requests with the same non-empty key send the same
\* identity parameters (RefNo, SailNo, YachtName, CountryId) upstream.
C27_SameKeySameQuery ==
  (last.op = "fetchOrcJson" /\ last.key # NoStr) =>
    \A r2 \in KeyRequests :
      (validateOptimalRequest(r2) = "ok" /\ generateCacheKey(r2) = last.key)
        => upstreamParams(r2) = last.val.params

\* A request by yacht name 'a' and country 'a': its key, name:a, is also the
\* key of the request by yacht name 'a' and country 'aB'.
C27_OtherCountrySameKey ==
  /\ last.op = "fetchOrcJson"
  /\ last.key = <<"n", "a", "m", "e", ":", "a">>
  /\ last.val.params.YachtName = <<"a">>
  /\ last.val.params.CountryId = <<"a">>
  /\ \E r2 \in KeyRequests :
       /\ validateOptimalRequest(r2) = "ok"
       /\ generateCacheKey(r2) = last.key
       /\ upstreamParams(r2).YachtName = <<"a">>
       /\ upstreamParams(r2).CountryId = <<"a", "B">>

\* What does hold: requests with the same key agree, up to letter case and
\* the blanks around the name, on the fields of the rule that decides it.
C27_SameKeySameDeciding ==
  (last.op = "fetchOrcJson" /\ last.key # NoStr) =>
    \A r2 \in KeyRequests :
      (validateOptimalRequest(r2) = "ok" /\ generateCacheKey(r2) = last.key)
        => SameDeciding(last.val.req, r2)

----------------------------------------------------------------------------
(* Two calls of optimal() in flight: the second may start while the first  *)
(* awaits its fetch.  Each synchronous stretch (Start, FetchDone) runs to  *)
(* its await or its end without interleaving, as the event loop runs it.   *)

Callers == {"p1", "p2"}

\* Accepted requests with tws = 2; two of them share the key name:a.
OverlapRequests ==
  {r \in Requests : r.tws = TNum(2) /\ validateOptimalRequest(r) = "ok"}

OverlapOutcomes ==
  {[ok |-> FALSE, json |-> PNoRms], [ok |-> TRUE, json |-> PFull],
   [ok |-> TRUE, json |-> PThin]}

InitOverlap ==
  /\ map = <<>>
  /\ hits = 0
  /\ misses = 0
  /\ now = 0
  /\ last = Obs("new", NoStr, "none", NoValue, <<>>)
  /\ used = <<>>
  /\ setAt = [k \in SvcKeys |-> -1]
  /\ hist = NoHist
  /\ built = [k \in SvcKeys |-> <<>>]
  /\ pc = [p \in Callers |-> Idle]

NextOverlap ==
  \/ \E p \in Callers, r \in OverlapRequests, t2 \in 0..MaxTime :
       Start(p, r, t2)
  \/ \E p \in Callers, f \in OverlapOutcomes, t2 \in 0..MaxTime :
       FetchDone(p, f, t2)
  \/ Tick

SpecOverlap == InitOverlap /\ [][NextOverlap]_vars

\* C29: when calls with the same key overlap, at most one upstream fetch is
\* in flight for the key.
C29_OneFetchPerKey ==
  \A p \in DOMAIN pc, q \in DOMAIN pc :
    (/\ p # q
     /\ pc[p].st = "fetching" /\ pc[q].st = "fetching"
     /\ pc[p].key # NoStr)
    => pc[p].key # pc[q].key

\* Two fetches for the key name:a are pending at once.
C29_TwoFetchesInFlight ==
  /\ pc["p1"].st = "fetching" /\ pc["p2"].st = "fetching"
  /\ pc["p1"].key = <<"n", "a", "m", "e", ":", "a">>
  /\ pc["p2"].key = pc["p1"].key

\* The second part of C29: an entry that is stored and not expired is not
\* replaced by the result of another fetch for its key.
C29_NoOverwrite ==
  [][\A k \in DOMAIN built :
       (/\ last'.op = "fetched" /\ last'.key = k
        /\ MapHas(map, k) /\ ~Expired(MapGet(map, k), now')
        /\ built[k] # <<>> /\ built'[k] # <<>>)
       => built'[k] = built[k]]_vars

----------------------------------------------------------------------------
(* fetchOrcJson and withRetry.  One call runs in synchronous stretches     *)
(* separated by its awaits: of fn() and of the timer of the backoff.       *)
(* pc[p] holds the position and the locals of the call.                    *)

\* baseDelay = 1000
BaseDelay == 1000

\* maxRetries: the default 3, and 0 and 1.
RetryChoices == {0, 1, 3}

\* How a call of fn settles: the response, or an error (HTTP status not ok,
\* network failure or abort after 30 s).
FnOutcomes == {"ok", "E_HTTP", "E_NETWORK"}

\* Requests of fetchOrcJson: by refNo, by sailNo, by yachtName alone (no
\* countryId), without identifier.
RetryRequests ==
  {[tws |-> TNum(12), refNo |-> f[1], sailNo |-> f[2], yachtName |-> f[3],
    countryId |-> NoStr] :
     f \in {<<<<"a">>, NoStr, NoStr>>, <<NoStr, <<"b">>, NoStr>>,
            <<NoStr, NoStr, <<"a">>>>, <<NoStr, NoStr, NoStr>>}}

RetryCall(st, req, maxRetries, attempt, outcomes, delays, error) ==
  [st |-> st, req |-> req, maxRetries |-> maxRetries, attempt |-> attempt,
   outcomes |-> outcomes, delays |-> delays, error |-> error]

\* A faulty variant: the last attempt is not recognised.
isLastAttempt_never(attempt, maxRetries) == FALSE

\* attempt === maxRetries
isLastAttempt(attempt, maxRetries) == attempt = maxRetries

InitRetry ==
  /\ map = <<>>
  /\ hits = 0
  /\ misses = 0
  /\ now = 0
  /\ last = Obs("new", NoStr, "none", NoValue, <<>>)
  /\ used = <<>>
  /\ setAt = [k \in Keys |-> -1]
  /\ hist = FreshHist
  /\ built = <<>>
  /\ \E req \in RetryRequests, maxRetries \in RetryChoices :
       pc = [p \in Procs |->
               RetryCall("called", req, maxRetries, 0, <<>>, <<>>, "none")]

\* fetchOrcJson to its first await: validateOrcRequest, then withRetry up to
\* the first call of fn.
FetchOrcJson(p) ==
  /\ pc[p].st = "called"
  /\ pc' = [pc EXCEPT ![p] =
              IF validateOrcRequest(pc[p].req) # "ok"
                THEN [pc[p] EXCEPT !.st = "rejected",
                                   !.error = validateOrcRequest(pc[p].req)]
              ELSE IF 0 <= pc[p].maxRetries
                THEN [pc[p] EXCEPT !.st = "awaiting fn"]
              ELSE [pc[p] EXCEPT !.st = "thrown"]]
  /\ UNCHANGED <<last, built, map, hits, misses, now, used, setAt, hist>>

\* fn settles: return of its result, or the catch block up to the timer.
FnSettles(p, outcome) ==
  /\ pc[p].st = "awaiting fn"
  /\ pc' = [pc EXCEPT ![p] =
              IF outcome = "ok"
                THEN [pc[p] EXCEPT !.st = "returned",
                                   !.outcomes = Append(@, outcome)]
              ELSE IF isLastAttempt(pc[p].attempt, pc[p].maxRetries)
                THEN [pc[p] EXCEPT !.st = "thrown", !.error = outcome,
                                   !.outcomes = Append(@, outcome)]
              ELSE [pc[p] EXCEPT !.st = "sleeping", !.error = outcome,
                                 !.outcomes = Append(@, outcome),
                                 !.delays =
                                   Append(@, BaseDelay * 2^(pc[p].attempt))]]
  /\ UNCHANGED <<last, built, map, hits, misses, now, used, setAt, hist>>

\* The timer fires: attempt++, the loop test, the next call of fn; past the
\* loop, throw lastError.
TimerFires(p) ==
  /\ pc[p].st = "sleeping"
  /\ pc' = [pc EXCEPT ![p] =
              IF pc[p].attempt + 1 <= pc[p].maxRetries
                THEN [pc[p] EXCEPT !.st = "awaiting fn",
                                   !.attempt = pc[p].attempt + 1]
              ELSE [pc[p] EXCEPT !.st = "thrown",
                                 !.attempt = pc[p].attempt + 1]]
  /\ UNCHANGED <<last, built, map, hits, misses, now, used, setAt, hist>>

NextRetry ==
  \/ \E p \in Procs : FetchOrcJson(p)
  \/ \E p \in Procs, outcome \in FnOutcomes : FnSettles(p, outcome)
  \/ \E p \in Procs : TimerFires(p)

SpecRetry == InitRetry /\ [][NextRetry]_vars

\* Every stretch that is ready runs: the call itself, the settlement of fn
\* (every call of fn terminates) and the timer of setTimeout.
SpecRetryFair ==
  /\ SpecRetry
  /\ \A p \in Procs :
       /\ WF_vars(FetchOrcJson(p))
       /\ WF_vars(\E outcome \in FnOutcomes : FnSettles(p, outcome))
       /\ WF_vars(TimerFires(p))

\* The calls of fn made so far: those settled and the one awaited.
FnCalls(c) == Len(c.outcomes) + (IF c.st = "awaiting fn" THEN 1 ELSE 0)

Settled(c) == c.st \in {"returned", "thrown", "rejected"}

RetrySafe(c) ==
  /\ FnCalls(c) <= c.maxRetries + 1
  /\ \A i \in 1..(Len(c.outcomes) - 1) : c.outcomes[i] # "ok"
  /\ c.st = "returned" =>
       /\ c.outcomes # <<>>
       /\ c.outcomes[Len(c.outcomes)] = "ok"
       /\ Len(c.delays) = Len(c.outcomes) - 1
  /\ c.st = "thrown" =>
       /\ Len(c.outcomes) = c.maxRetries + 1
       /\ \A i \in 1..Len(c.outcomes) : c.outcomes[i] # "ok"
       /\ c.error = c.outcomes[Len(c.outcomes)]
       /\ Len(c.delays) = c.maxRetries
  /\ c.st = "rejected" =>
       /\ validateOrcRequest(c.req) # "ok"
       /\ c.outcomes = <<>> /\ c.delays = <<>>
  /\ validateOrcRequest(c.req) # "ok" => FnCalls(c) = 0

\* C30: withRetry ends when every call of fn ends; fn is called at most
\* maxRetries + 1 times, no call follows a success, and after maxRetries + 1
\* failures the error of the last attempt is thrown with no further wait; a
\* request rejected by validateOrcRequest leads to no call of fn.
C30_RetryBounded ==
  /\ [](\A p \in Procs : RetrySafe(pc[p]))
  /\ <>(\A p \in Procs : Settled(pc[p]))
  /\ [][\A p \in Procs : Settled(pc[p]) => pc'[p] = pc[p]]_vars

\* The default: four failures, three waits of 1000, 2000 and 4000 ms, and the
\* error of the fourth attempt is thrown.
C30_Witness ==
  \E p \in Procs :
    /\ pc[p].st = "thrown"
    /\ pc[p].maxRetries = 3
    /\ pc[p].outcomes = <<"E_HTTP", "E_HTTP", "E_NETWORK", "E_HTTP">>
    /\ pc[p].delays = <<1000, 2000, 4000>>
    /\ pc[p].error = "E_HTTP"

\* A success at the second attempt ends the call after one wait.
C30_ReturnsFirstSuccess ==
  \E p \in Procs :
    /\ pc[p].st = "returned"
    /\ pc[p].maxRetries = 3
    /\ pc[p].outcomes = <<"E_NETWORK", "ok">>
    /\ pc[p].delays = <<1000>>

====
